---- MODULE Spec2Model ----
(***************************************************************************)
(* A model of btclib's Partially Signed Bitcoin Transaction code:          *)
(*   psbt.py     PsbtInput / PsbtOutput / Psbt, deserialize_map,           *)
(*               psbt_from_tx, _combine, combine_psbts, finalize_psbt,     *)
(*               extract_tx                                                *)
(*   psbt_in.py  PsbtIn (the later input record class)                     *)
(*                                                                         *)
(* Python values are modelled as follows.                                  *)
(*   bytes          a sequence of 0..255                                   *)
(*   str            a sequence of symbols; a hex string has one symbol     *)
(*                  per hex digit, an opcode mnemonic is one symbol        *)
(*   int token      <<"int", n>>                                           *)
(*   Optional       <<>> for None, <<v>> for a value v                     *)
(*   dict           a sequence of <<key, value>> pairs in insertion order  *)
(*   list           a sequence                                             *)
(*   a result       [err |-> "", val |-> v, rest |-> bytes left], or       *)
(*                  [err |-> kind, val |-> 0, rest |-> <<>>] for an        *)
(*                  exception of that kind                                 *)
(***************************************************************************)
EXTENDS Integers, Sequences, FiniteSets, TLC

VARIABLES
    heap,     \* the Python heap: address -> object (containers, records, dicts, lists)
    roots,    \* the addresses of the containers the caller holds, in creation order
    last,     \* the last operation: name, arguments, their values before it, result
    steps,    \* number of operations performed
    crec,     \* codec: the record handed to serialize
    cwire,    \* codec: the bytes serialize produced (a result)
    cmap,     \* codec: what deserialize_map made of the bytes (a result)
    cdec,     \* codec: what the record decoder made of the map (a result)
    cpc,      \* codec: position in the serialize / parse / decode round trip
    vpsbt,    \* validator: the container handed to Psbt.assert_valid
    vres      \* validator: the outcome of Psbt.assert_valid

vars == <<heap, roots, last, steps, crec, cwire, cmap, cdec, cpc, vpsbt, vres>>

----------------------------------------------------------------------------
(* Results and errors *)

\* a result: the value, and for a stream parser the bytes left
Parsed(v, rest) == [err |-> "", val |-> v, rest |-> rest]

Ok(v) == Parsed(v, <<>>)

Err(kind) == [err |-> kind, val |-> 0, rest |-> <<>>]

ParseErr(kind) == Err(kind)

IsOk(r) == r.err = ""

\* continue with F(value, rest) unless r is an error, which is passed on
Then(r, F(_, _)) == IF r.err # "" THEN Err(r.err) ELSE F(r.val, r.rest)

None == <<>>

Some(v) == <<v>>

\* the truth value Python gives an Optional[str] or Optional[object]
Truthy(opt) == opt # <<>> /\ opt[1] # <<>>

----------------------------------------------------------------------------
(* Sequences as Python lists, bytes and strings *)

\* data[n:] with Python's silent clamping
Drop(s, n) == IF n >= Len(s) THEN <<>> ELSE SubSeq(s, n + 1, Len(s))

\* data[:n] with Python's silent clamping
Take(s, n) == IF n >= Len(s) THEN s ELSE SubSeq(s, 1, n)

RECURSIVE Flatten(_)
Flatten(ss) == IF ss = <<>> THEN <<>> ELSE Head(ss) \o Flatten(Tail(ss))

\* x in list
InSeq(x, s) == \E i \in 1..Len(s) : s[i] = x

\* int.to_bytes(width, "little")
RECURSIVE ToLE(_, _)
ToLE(n, width) == IF width = 0 THEN <<>> ELSE <<n % 256>> \o ToLE(n \div 256, width - 1)

\* int.from_bytes(b, "little")
RECURSIVE FromLE(_)
FromLE(b) == IF b = <<>> THEN 0 ELSE Head(b) + 256 * FromLE(Tail(b))

HexDigits == <<"0", "1", "2", "3", "4", "5", "6", "7",
               "8", "9", "a", "b", "c", "d", "e", "f">>

UpperDigits == <<"0", "1", "2", "3", "4", "5", "6", "7",
                 "8", "9", "A", "B", "C", "D", "E", "F">>

\* bytes.hex(): two lower-case digits per byte
Hex(b) ==
    [k \in 1..(2 * Len(b)) |->
        IF k % 2 = 1 THEN HexDigits[(b[(k + 1) \div 2] \div 16) + 1]
        ELSE HexDigits[(b[k \div 2] % 16) + 1]]

\* str.upper(): a symbol that is a lower-case hex letter becomes its capital
UpperSym(c) ==
    IF \E i \in 11..16 : HexDigits[i] = c
    THEN UpperDigits[CHOOSE i \in 11..16 : HexDigits[i] = c]
    ELSE c

Upper(s) == [i \in 1..Len(s) |-> UpperSym(s[i])]

\* the value of one hex digit, either case
Nibble(c) == CHOOSE i \in 0..15 : HexDigits[i + 1] = c \/ UpperDigits[i + 1] = c

\* bytes.fromhex()
FromHex(s) == [k \in 1..(Len(s) \div 2) |-> 16 * Nibble(s[2 * k - 1]) + Nibble(s[2 * k])]

----------------------------------------------------------------------------
(* Dictionaries: insertion-ordered sequences of <<key, value>> pairs *)

DictKeys(d) == {d[i][1] : i \in 1..Len(d)}

DictHas(d, k) == \E i \in 1..Len(d) : d[i][1] = k

DictGet(d, k) == d[CHOOSE i \in 1..Len(d) : d[i][1] = k][2]

\* d[k] = v: an existing key keeps its position
DictSet(d, k, v) ==
    IF DictHas(d, k)
    THEN [i \in 1..Len(d) |-> IF d[i][1] = k THEN <<k, v>> ELSE d[i]]
    ELSE Append(d, <<k, v>>)

\* d.update(e)
RECURSIVE DictUpdate(_, _)
DictUpdate(d, e) ==
    IF e = <<>> THEN d
    ELSE DictUpdate(DictSet(d, e[1][1], e[1][2]), Tail(e))

\* list(d.values())
DictValues(d) == [i \in 1..Len(d) |-> d[i][2]]

\* dict equality in Python ignores insertion order
DictEq(d, e) ==
    /\ DictKeys(d) = DictKeys(e)
    /\ \A k \in DictKeys(d) : DictGet(d, k) = DictGet(e, k)

----------------------------------------------------------------------------
(* varint: Bitcoin's compact-size integers. The model's integers stay below *)
(* 2^31, so the 9-byte form is never produced by the encoder.              *)

VarintEncode(n) ==
    IF n < 253 THEN <<n>>
    ELSE IF n <= 65535 THEN <<253>> \o ToLE(n, 2)
    ELSE <<254>> \o ToLE(n, 4)

\* the number of bytes the prefix at the head of b announces
VarintWidth(b) ==
    IF b[1] < 253 THEN 1 ELSE IF b[1] = 253 THEN 3 ELSE IF b[1] = 254 THEN 5 ELSE 9

\* decode the integer at the head of b, leaving the bytes after it; a
\* truncated buffer is an error
VarintDecode(b) ==
    IF b = <<>> THEN Err("IndexError")
    ELSE IF Len(b) < VarintWidth(b) THEN Err("IndexError")
    ELSE IF VarintWidth(b) = 1 THEN Parsed(b[1], Tail(b))
    ELSE Parsed(FromLE(SubSeq(b, 2, VarintWidth(b))), Drop(b, VarintWidth(b)))

----------------------------------------------------------------------------
(* Collaborators the PSBT code consumes: script, witness, TxIn / TxOut     *)
(* codecs, hash primitives and the script-hash payload extractor.          *)

OpNames == {"OP_0", "OP_1", "OP_2", "OP_HASH160", "OP_EQUAL", "OP_CHECKSIG",
            "OP_CHECKMULTISIG"}

OpByte(name) ==
    CASE name = "OP_0" -> 0
      [] name = "OP_1" -> 81
      [] name = "OP_2" -> 82
      [] name = "OP_HASH160" -> 169
      [] name = "OP_EQUAL" -> 135
      [] name = "OP_CHECKSIG" -> 172
      [] name = "OP_CHECKMULTISIG" -> 174

IsIntTok(t) == Len(t) = 2 /\ t[1] = "int"

IsOpTok(t) == Len(t) = 1 /\ t[1] \in OpNames

\* script.encode of one token: an opcode is one byte, an integer 0 is OP_0,
\* a hex string is a push of its bytes (the empty string pushes nothing: 0x00)
TokenEncode(t) ==
    IF IsIntTok(t) THEN (IF t[2] = 0 THEN <<0>> ELSE <<80 + t[2]>>)
    ELSE IF IsOpTok(t) THEN <<OpByte(t[1])>>
    ELSE <<Len(FromHex(t))>> \o FromHex(t)

\* script.encode(tokens) -> bytes
ScriptEncode(tokens) == Flatten([i \in 1..Len(tokens) |-> TokenEncode(tokens[i])])

\* script.serialize(tokens) -> bytes: length-prefixed script.encode
ScriptSerialize(tokens) == VarintEncode(Len(ScriptEncode(tokens))) \o ScriptEncode(tokens)

\* script.decode(bytes) -> tokens: data pushes come back as upper-case hex
RECURSIVE ScriptDecode(_)
ScriptDecode(b) ==
    IF b = <<>> THEN <<>>
    ELSE IF \E n \in OpNames : OpByte(n) = b[1]
         THEN <<  <<CHOOSE n \in OpNames : OpByte(n) = b[1]>>  >> \o ScriptDecode(Tail(b))
         ELSE << Upper(Hex(Take(Tail(b), b[1]))) >> \o ScriptDecode(Drop(Tail(b), b[1]))

\* witness_serialize(list of hex strings) -> bytes
WitnessSerialize(w) ==
    VarintEncode(Len(w))
        \o Flatten([i \in 1..Len(w) |-> VarintEncode(Len(FromHex(w[i]))) \o FromHex(w[i])])

\* A stand-in for a cryptographic hash: a deterministic function of the input
\* bytes and of a per-algorithm seed to `width` bytes. The model relies on
\* equal inputs giving equal digests and on the different scripts and
\* transactions that occur in it giving different digests.

RECURSIVE Mix(_, _, _)
Mix(b, lo, hi) ==
    IF lo > hi THEN 0
    ELSE IF lo = hi THEN ((b[lo] + 1) * ((lo * 7919 + 104729) % 65521)) % 65521
    ELSE (Mix(b, lo, (lo + hi) \div 2) + Mix(b, (lo + hi) \div 2 + 1, hi)) % 65521

Spread(m, seed, width) == [i \in 1..width |-> (m * (i + 2) + i * seed) % 256]

Digest(seed, width, b) == Spread((Mix(b, 1, Len(b)) + 31 * Len(b) + seed) % 65521, seed, width)

HASH160_LEN == 20

SHA256_LEN == 32

hash160(b) == Digest(3, HASH160_LEN, b)

sha256(b) == Digest(5, SHA256_LEN, b)

hash256(b) == Digest(11, SHA256_LEN, b)

Reverse(s) == [i \in 1..Len(s) |-> s[Len(s) + 1 - i]]

\* payload_from_scriptPubKey(script)[1]: the hash embedded in a P2SH
\* (OP_HASH160 <20 bytes> OP_EQUAL) or P2WSH (0 <32 bytes>) locking script;
\* any other script is not recognised
PayloadFromScriptPubKey(spk) ==
    IF Len(spk) = 3 /\ spk[1] = <<"OP_HASH160">> /\ spk[3] = <<"OP_EQUAL">>
          /\ ~IsOpTok(spk[2]) /\ ~IsIntTok(spk[2]) /\ Len(spk[2]) = 2 * HASH160_LEN
    THEN Ok(FromHex(spk[2]))
    ELSE IF Len(spk) = 2 /\ (spk[1] = <<"OP_0">> \/ spk[1] = <<"int", 0>>)
          /\ ~IsOpTok(spk[2]) /\ ~IsIntTok(spk[2]) /\ Len(spk[2]) = 2 * SHA256_LEN
    THEN Ok(FromHex(spk[2]))
    ELSE Err("ValueError")

\* TxOut.serialize: 8-byte value, then the length-prefixed locking script
TxOutSerialize(o) == ToLE(o.nValue, 8) \o ScriptSerialize(o.scriptPubKey)

\* TxIn.serialize: previous txid (reversed), output index, scriptSig, sequence
TxInSerialize(i) ==
    Reverse(FromHex(i.prevout.hash)) \o ToLE(i.prevout.n, 4)
        \o ScriptSerialize(i.scriptSig) \o ToLE(i.nSequence, 4)

----------------------------------------------------------------------------
(* tx.py: the transaction skeleton *)

\* Tx.serialize(include_witness)
TxSerialize(tx, include_witness) ==
    LET witness_flag == \E i \in 1..Len(tx.vin) : tx.vin[i].txinwitness # <<>>
        body == VarintEncode(Len(tx.vin))
                  \o Flatten([i \in 1..Len(tx.vin) |-> TxInSerialize(tx.vin[i])])
                  \o VarintEncode(Len(tx.vout))
                  \o Flatten([i \in 1..Len(tx.vout) |-> TxOutSerialize(tx.vout[i])])
                  \o (IF witness_flag /\ include_witness
                      THEN Flatten([i \in 1..Len(tx.vin) |->
                                       WitnessSerialize(tx.vin[i].txinwitness)])
                      ELSE <<>>)
                  \o ToLE(tx.nLockTime, 4)
    IN  ToLE(tx.nVersion, 4)
          \o (IF witness_flag /\ include_witness THEN <<0, 1>> ELSE <<>>)
          \o body

\* Tx.txid of a transaction that serialize(False) accepts
Txid(tx) == Hex(Reverse(hash256(TxSerialize(tx, FALSE))))

\* TxIn.deserialize(stream)
TxInDeserialize(b) ==
    Then(VarintDecode(Drop(b, 36)), LAMBDA slen, sbody :
        Parsed([prevout |-> [hash |-> Hex(Reverse(Take(b, 32))),
                             n |-> FromLE(Take(Drop(b, 32), 4))],
                scriptSig |-> ScriptDecode(Take(sbody, slen)),
                nSequence |-> FromLE(Take(Drop(sbody, slen), 4)),
                txinwitness |-> <<>>],
               Drop(sbody, slen + 4)))

\* TxOut.deserialize(stream)
TxOutDeserialize(b) ==
    Then(VarintDecode(Drop(b, 8)), LAMBDA slen, sbody :
        Parsed([nValue |-> FromLE(Take(b, 8)),
                scriptPubKey |-> ScriptDecode(Take(sbody, slen))],
               Drop(sbody, slen)))

\* the stack items of witness_deserialize(stream), n of them
RECURSIVE WitnessParseItems(_, _, _)
WitnessParseItems(b, n, acc) ==
    IF n = 0 THEN Parsed(acc, b)
    ELSE Then(VarintDecode(b), LAMBDA len, body :
             WitnessParseItems(Drop(body, len), n - 1, Append(acc, Hex(Take(body, len)))))

\* witness_deserialize(stream)
WitnessParse(b) ==
    Then(VarintDecode(b), LAMBDA cnt, body : WitnessParseItems(body, cnt, <<>>))

\* [TxIn.deserialize(stream) for _ in range(n)]
RECURSIVE ParseTxIns(_, _, _)
ParseTxIns(b, n, acc) ==
    IF n = 0 THEN Parsed(acc, b)
    ELSE Then(TxInDeserialize(b), LAMBDA txin, rest : ParseTxIns(rest, n - 1, Append(acc, txin)))

\* [TxOut.deserialize(stream) for _ in range(n)]
RECURSIVE ParseTxOuts(_, _, _)
ParseTxOuts(b, n, acc) ==
    IF n = 0 THEN Parsed(acc, b)
    ELSE Then(TxOutDeserialize(b), LAMBDA txout, rest :
             ParseTxOuts(rest, n - 1, Append(acc, txout)))

\* for tx_input in tx.vin: tx_input.txinwitness = witness_deserialize(stream)
RECURSIVE ParseWitnesses(_, _, _)
ParseWitnesses(b, vin, k) ==
    IF k > Len(vin) THEN Parsed(vin, b)
    ELSE Then(WitnessParse(b), LAMBDA w, rest :
             ParseWitnesses(rest, [vin EXCEPT ![k].txinwitness = w], k + 1))

\* Tx.assert_valid
TxAssertValid(tx) ==
    IF tx.vin = <<>> THEN Err("ValueError")
    ELSE IF tx.vout = <<>> THEN Err("ValueError")
    ELSE Ok(tx)

\* Tx.deserialize, after the version and the optional 00 01 marker were read
TxDeserializeBody(nVersion, witness_flag, stream) ==
    Then(VarintDecode(stream), LAMBDA input_count, s1 :
    Then(ParseTxIns(s1, input_count, <<>>), LAMBDA vin, s2 :
    Then(VarintDecode(s2), LAMBDA output_count, s3 :
    Then(ParseTxOuts(s3, output_count, <<>>), LAMBDA vout, s4 :
    Then(IF witness_flag THEN ParseWitnesses(s4, vin, 1) ELSE Parsed(vin, s4),
         LAMBDA vinw, s5 :
             TxAssertValid([nVersion |-> nVersion,
                            nLockTime |-> FromLE(Take(s5, 4)),
                            vin |-> vinw,
                            vout |-> vout]))))))

\* Tx.deserialize(data)
TxDeserialize(data) ==
    IF Take(Drop(data, 4), 2) = <<0, 1>>
    THEN TxDeserializeBody(FromLE(Take(data, 4)), TRUE, Drop(data, 6))
    ELSE TxDeserializeBody(FromLE(Take(data, 4)), FALSE, Drop(data, 4))

----------------------------------------------------------------------------
(* psbt.py: deserialize_map *)

\* a parser whose later entry replaces the earlier one of the same key
MapInsertOverwrite(partial_map, key, value) == Ok(DictSet(partial_map, key, value))

\* the assertion and the assignment that end one round of the loop
MapInsert(partial_map, key, value) ==
    IF DictHas(partial_map, key) THEN Err("AssertionError: duplicate keys")
    ELSE Ok(Append(partial_map, <<key, value>>))

\* a parser that takes the end of the buffer for a terminator
RECURSIVE deserialize_map_loopLenient(_, _)
deserialize_map_loopLenient(data, partial_map) ==
    IF data = <<>> THEN Parsed(partial_map, <<>>)
    ELSE IF data[1] = 0 THEN Parsed(partial_map, Tail(data))
    ELSE Then(VarintDecode(data), LAMBDA key_len, d1 :
         Then(VarintDecode(Drop(d1, key_len)), LAMBDA value_len, d2 :
         Then(MapInsert(partial_map, Take(d1, key_len), Take(d2, value_len)),
              LAMBDA map, none : deserialize_map_loopLenient(Drop(d2, value_len), map))))

RECURSIVE deserialize_map_loop(_, _)
deserialize_map_loop(data, partial_map) ==
    IF data = <<>> THEN Err("IndexError")                       \* data[0]
    ELSE IF data[1] = 0 THEN Parsed(partial_map, Tail(data))
    ELSE Then(VarintDecode(data), LAMBDA key_len, d1 :
         Then(VarintDecode(Drop(d1, key_len)), LAMBDA value_len, d2 :
         Then(MapInsert(partial_map, Take(d1, key_len), Take(d2, value_len)),
              LAMBDA map, none : deserialize_map_loop(Drop(d2, value_len), map))))

\* deserialize_map(data) -> (partial_map, data): val is the map, rest the remainder
deserialize_map(data) ==
    IF Len(data) = 0 THEN Err("AssertionError: at least a map is missing")
    ELSE deserialize_map_loop(data, <<>>)

----------------------------------------------------------------------------
(* psbt.py: PsbtInput as a value (every field by value, no sharing) *)

\* PsbtInput(): the dataclass defaults
PsbtInputDefault ==
    [non_witness_utxo |-> None, witness_utxo |-> None, partial_sigs |-> <<>>,
     sighash |-> 0, redeem_script |-> <<>>, witness_script |-> <<>>,
     hd_keypaths |-> <<>>, final_script_sig |-> <<>>, final_script_witness |-> <<>>,
     por_commitment |-> None, proprietary |-> <<>>, unknown |-> <<>>]

\* one (length-prefixed key, length-prefixed value) pair
KeyValue(key, value) == VarintEncode(Len(key)) \o key \o VarintEncode(Len(value)) \o value

\* the hd_keypaths loop of the serializers; the key length byte is fixed
SerializeHdKeypaths(lenTag, hd_keypaths) ==
    Flatten([i \in 1..Len(hd_keypaths) |->
        LET keypath == FromHex(hd_keypaths[i].fingerprint)
                          \o FromHex(hd_keypaths[i].derivation_path)
        IN  lenTag \o FromHex(hd_keypaths[i].xpub) \o VarintEncode(Len(keypath)) \o keypath])

\* the proprietary loop of the serializers
SerializeProprietary(proprietary) ==
    Flatten([i \in 1..Len(proprietary) |->
        LET owner == proprietary[i][1]
            dictionary == proprietary[i][2]
        IN  Flatten([j \in 1..Len(dictionary) |->
                KeyValue(<<252>> \o VarintEncode(owner) \o FromHex(dictionary[j][1]),
                         FromHex(dictionary[j][2]))])])

\* the unknown loop of the serializers
SerializeUnknown(unknown) ==
    Flatten([i \in 1..Len(unknown) |->
        KeyValue(FromHex(unknown[i][1]), FromHex(unknown[i][2]))])

\* the partial_sigs loop of PsbtInput.serialize: the key length byte is fixed at 0x22
SerializePartialSigsFixed(partial_sigs) ==
    Flatten([i \in 1..Len(partial_sigs) |->
        <<34, 2>> \o FromHex(partial_sigs[i][1])
            \o VarintEncode(Len(partial_sigs[i][2]) \div 2) \o FromHex(partial_sigs[i][2])])

\* PsbtInput.serialize
PsbtInputSerialize(r) ==
    LET nw == IF r.non_witness_utxo # None THEN TxAssertValid(r.non_witness_utxo[1])
              ELSE Ok(0)
        p_nw == IF r.non_witness_utxo # None
                THEN LET utxo == TxSerialize(r.non_witness_utxo[1], TRUE)
                     IN  <<1, 0>> \o VarintEncode(Len(utxo)) \o utxo
                ELSE <<>>
        p_w == IF r.witness_utxo # None
               THEN LET utxo == TxOutSerialize(r.witness_utxo[1])
                    IN  <<1, 1>> \o VarintEncode(Len(utxo)) \o utxo
               ELSE <<>>
        p_sigs == SerializePartialSigsFixed(r.partial_sigs)
        p_sighash == IF r.sighash # 0 THEN <<1, 3, 4>> \o ToLE(r.sighash, 4) ELSE <<>>
        p_redeem == IF r.redeem_script # <<>>
                    THEN <<1, 4>> \o ScriptSerialize(r.redeem_script) ELSE <<>>
        p_witness == IF r.witness_script # <<>>
                     THEN <<1, 5>> \o ScriptSerialize(r.witness_script) ELSE <<>>
        p_hd == SerializeHdKeypaths(<<34, 6>>, r.hd_keypaths)
        p_fsig == IF r.final_script_sig # <<>>
                  THEN <<1, 7>> \o ScriptSerialize(r.final_script_sig) ELSE <<>>
        p_fwit == IF r.final_script_witness # <<>>
                  THEN LET wit == WitnessSerialize(r.final_script_witness)
                       IN  <<1, 8>> \o VarintEncode(Len(wit)) \o wit
                  ELSE <<>>
        p_por == IF Truthy(r.por_commitment)
                 THEN LET c == FromHex(r.por_commitment[1])
                      IN  <<1, 9>> \o VarintEncode(Len(c)) \o c
                 ELSE <<>>
    IN  Then(nw, LAMBDA checked, rest :
             Ok(p_nw \o p_w \o p_sigs \o p_sighash \o p_redeem \o p_witness \o p_hd
                  \o p_fsig \o p_fwit \o p_por
                  \o SerializeProprietary(r.proprietary) \o SerializeUnknown(r.unknown)))

\* proprietary[prefix][key.hex()] = value.hex(), creating proprietary[prefix] if absent
ProprietarySet(proprietary, prefix, sub, value) ==
    DictSet(proprietary, prefix,
            DictSet(IF DictHas(proprietary, prefix) THEN DictGet(proprietary, prefix)
                    ELSE <<>>,
                    sub, value))

\* the proprietary branch of the decoders
DecodeProprietary(proprietary, key, value) ==
    Then(VarintDecode(Tail(key)), LAMBDA prefix, rest :
        Ok(ProprietarySet(proprietary, prefix,
                          Hex(Drop(key, 1 + Len(VarintEncode(prefix)))), Hex(value))))

\* assert len(key) == n, then the branch's result
AssertKeyLen(key, n, result) == IF Len(key) = n THEN result ELSE Err("AssertionError")

\* one iteration of the loop of PsbtInput.decode
PsbtInputDecodeEntry(acc, key, value) ==
    CASE key[1] = 0 ->
           AssertKeyLen(key, 1, Then(TxDeserialize(value), LAMBDA tx, rest :
               Ok([acc EXCEPT !.non_witness_utxo = Some(tx)])))
      [] key[1] = 1 ->
           AssertKeyLen(key, 1, Then(TxOutDeserialize(value), LAMBDA o, rest :
               Ok([acc EXCEPT !.witness_utxo = Some(o)])))
      [] key[1] = 2 ->
           AssertKeyLen(key, 33 + 1,
               Ok([acc EXCEPT !.partial_sigs = DictSet(@, Hex(Tail(key)), Hex(value))]))
      [] key[1] = 3 ->
           AssertKeyLen(key, 1,
               IF Len(value) # 4 THEN Err("AssertionError")
               ELSE Ok([acc EXCEPT !.sighash = FromLE(value)]))
      [] key[1] = 4 ->
           AssertKeyLen(key, 1, Ok([acc EXCEPT !.redeem_script = ScriptDecode(value)]))
      [] key[1] = 5 ->
           AssertKeyLen(key, 1, Ok([acc EXCEPT !.witness_script = ScriptDecode(value)]))
      [] key[1] = 6 ->
           AssertKeyLen(key, 33 + 1,
               IF Len(value) % 4 # 0 THEN Err("AssertionError")
               ELSE Ok([acc EXCEPT !.hd_keypaths =
                           Append(@, [xpub |-> Hex(Tail(key)),
                                      fingerprint |-> Hex(Take(value, 4)),
                                      derivation_path |-> Hex(Drop(value, 4))])]))
      [] key[1] = 7 ->
           AssertKeyLen(key, 1, Ok([acc EXCEPT !.final_script_sig = ScriptDecode(value)]))
      [] key[1] = 8 ->
           AssertKeyLen(key, 1, Then(WitnessParse(value), LAMBDA w, rest :
               Ok([acc EXCEPT !.final_script_witness = w])))
      [] key[1] = 9 ->
           AssertKeyLen(key, 1, Ok([acc EXCEPT !.por_commitment = Some(Hex(value))]))
      [] key[1] = 252 ->
           Then(DecodeProprietary(acc.proprietary, key, value), LAMBDA p, rest :
               Ok([acc EXCEPT !.proprietary = p]))
      [] OTHER ->
           Ok([acc EXCEPT !.unknown = DictSet(@, Hex(key), Hex(value))])

RECURSIVE PsbtInputDecodeLoop(_, _)
PsbtInputDecodeLoop(acc, items) ==
    IF items = <<>> THEN Ok(acc)
    ELSE Then(PsbtInputDecodeEntry(acc, items[1][1], items[1][2]), LAMBDA next, rest :
             PsbtInputDecodeLoop(next, Tail(items)))

\* PsbtInput.decode(input_map); PsbtInput.assert_valid checks nothing
PsbtInputDecode(input_map) == PsbtInputDecodeLoop(PsbtInputDefault, input_map)

\* dataclass equality of two PsbtInput values: dicts compare without order
ProprietaryEq(p, q) ==
    /\ DictKeys(p) = DictKeys(q)
    /\ \A k \in DictKeys(p) : DictEq(DictGet(p, k), DictGet(q, k))

PsbtInputEq(a, b) ==
    /\ a.non_witness_utxo = b.non_witness_utxo
    /\ a.witness_utxo = b.witness_utxo
    /\ DictEq(a.partial_sigs, b.partial_sigs)
    /\ a.sighash = b.sighash
    /\ a.redeem_script = b.redeem_script
    /\ a.witness_script = b.witness_script
    /\ a.hd_keypaths = b.hd_keypaths
    /\ a.final_script_sig = b.final_script_sig
    /\ a.final_script_witness = b.final_script_witness
    /\ a.por_commitment = b.por_commitment
    /\ ProprietaryEq(a.proprietary, b.proprietary)
    /\ DictEq(a.unknown, b.unknown)

----------------------------------------------------------------------------
(* psbt_in.py: PsbtIn as a value; its fields hold bytes, not hex strings *)

PSBT_IN_NON_WITNESS_UTXO == 0

PSBT_IN_WITNESS_UTXO == 1

PSBT_IN_PARTIAL_SIG == 2

PSBT_IN_SIGHASH_TYPE == 3

PSBT_IN_REDEEM_SCRIPT == 4

PSBT_IN_WITNESS_SCRIPT == 5

PSBT_IN_BIP32_DERIVATION == 6

PSBT_IN_FINAL_SCRIPTSIG == 7

PSBT_IN_FINAL_SCRIPTWITNESS == 8

\* PsbtIn(check_validity=False): the dataclass defaults
PsbtInDefault ==
    [non_witness_utxo |-> None, witness_utxo |-> None, partial_sigs |-> <<>>,
     sighash_type |-> None, redeem_script |-> <<>>, witness_script |-> <<>>,
     hd_keypaths |-> <<>>, final_script_sig |-> <<>>, final_script_witness |-> <<>>,
     unknown |-> <<>>]

\* bytes a < bytes b in Python's ordering
RECURSIVE BytesLess(_, _)
BytesLess(a, b) ==
    IF b = <<>> THEN FALSE
    ELSE IF a = <<>> THEN TRUE
    ELSE IF a[1] # b[1] THEN a[1] < b[1]
    ELSE BytesLess(Tail(a), Tail(b))

\* sorted(d.items()) of a dict with bytes keys
RECURSIVE SortedItems(_)
SortedItems(d) ==
    IF d = <<>> THEN <<>>
    ELSE LET m == CHOOSE i \in 1..Len(d) :
                     \A j \in 1..Len(d) : j = i \/ BytesLess(d[i][1], d[j][1])
         IN  <<d[m]>> \o SortedItems([k \in 1..(Len(d) - 1) |-> IF k < m THEN d[k] ELSE d[k + 1]])

\* _serialize_bytes(type_, value)
SerializeBytes(type_, value) == KeyValue(<<type_>>, value)

\* _serialize_dict_bytes_bytes(type_, dictionary): one pair per entry, keys sorted
SerializeDictBytesBytes(type_, d) ==
    LET items == SortedItems(d)
    IN  Flatten([i \in 1..Len(items) |-> KeyValue(type_ \o items[i][1], items[i][2])])

\* secpoint.point_from_octets accepts the SEC encodings: 33 bytes starting
\* 0x02 / 0x03, or 65 bytes starting 0x04 (curve membership is not modelled)
ValidPubkey(pubkey) ==
    \/ Len(pubkey) = 33 /\ pubkey[1] \in {2, 3}
    \/ Len(pubkey) = 65 /\ pubkey[1] = 4

\* PsbtIn.assert_valid, as far as the model's values can be invalid:
\* _assert_valid_partial_sigs and the key shape of _assert_valid_hd_keypaths
PsbtInAssertValid(r) ==
    IF \E i \in 1..Len(r.partial_sigs) :
           ~ValidPubkey(r.partial_sigs[i][1]) \/ r.partial_sigs[i][2] = <<>>
    THEN Err("BTClibValueError")
    ELSE IF \E i \in 1..Len(r.hd_keypaths) : ~ValidPubkey(r.hd_keypaths[i][1])
    THEN Err("BTClibValueError")
    ELSE Ok(r)

\* PsbtIn.serialize(assert_valid)
PsbtInSerialize(r, assert_valid) ==
    LET valid == IF assert_valid THEN PsbtInAssertValid(r) ELSE Ok(r)
        p_nw == IF r.non_witness_utxo # None
                THEN SerializeBytes(PSBT_IN_NON_WITNESS_UTXO,
                                    TxSerialize(r.non_witness_utxo[1], TRUE))
                ELSE <<>>
        p_w == IF r.witness_utxo # None
               THEN SerializeBytes(PSBT_IN_WITNESS_UTXO, TxOutSerialize(r.witness_utxo[1]))
               ELSE <<>>
        p_partial ==
            IF r.final_script_sig = <<>> /\ r.final_script_witness = <<>>
            THEN (IF r.partial_sigs # <<>>
                  THEN SerializeDictBytesBytes(<<PSBT_IN_PARTIAL_SIG>>, r.partial_sigs)
                  ELSE <<>>)
                 \o (IF r.sighash_type # None /\ r.sighash_type # Some(0)
                     THEN SerializeBytes(PSBT_IN_SIGHASH_TYPE, ToLE(r.sighash_type[1], 4))
                     ELSE <<>>)
                 \o (IF r.redeem_script # <<>>
                     THEN SerializeBytes(PSBT_IN_REDEEM_SCRIPT, r.redeem_script) ELSE <<>>)
                 \o (IF r.witness_script # <<>>
                     THEN SerializeBytes(PSBT_IN_WITNESS_SCRIPT, r.witness_script) ELSE <<>>)
                 \o (IF r.hd_keypaths # <<>>
                     THEN SerializeDictBytesBytes(<<PSBT_IN_BIP32_DERIVATION>>, r.hd_keypaths)
                     ELSE <<>>)
            ELSE <<>>
        p_fsig == IF r.final_script_sig # <<>>
                  THEN SerializeBytes(PSBT_IN_FINAL_SCRIPTSIG, r.final_script_sig) ELSE <<>>
        p_fwit == IF r.final_script_witness # <<>>
                  THEN SerializeBytes(PSBT_IN_FINAL_SCRIPTWITNESS,
                                      WitnessSerialize(r.final_script_witness))
                  ELSE <<>>
        p_unknown == IF r.unknown # <<>> THEN SerializeDictBytesBytes(<<>>, r.unknown)
                     ELSE <<>>
    IN  Then(valid, LAMBDA checked, rest :
             Ok(p_nw \o p_w \o p_partial \o p_fsig \o p_fwit \o p_unknown))

\* _deserialize_partial_sigs(k, v)
DeserializePartialSigs(k, v) ==
    IF (Len(k) - 1) \notin {33, 65} THEN Err("BTClibValueError")
    ELSE Ok(<< <<Tail(k), v>> >>)

\* _deserialize_hd_keypaths(k, v, type_)
DeserializeHdKeypaths(k, v) ==
    IF (Len(k) - 1) \notin {33, 65} THEN Err("BTClibValueError")
    ELSE IF Len(v) % 4 # 0 THEN Err("BTClibValueError")
    ELSE Ok(<< <<Tail(k), v>> >>)

\* the key length check of _deserialize_tx, _deserialize_bytes, ...
KeyLen1(k, result) == IF Len(k) # 1 THEN Err("BTClibValueError") ELSE result

\* one iteration of the loop of PsbtIn.deserialize
PsbtInDeserializeEntry(out, k, v) ==
    CASE k[1] = PSBT_IN_NON_WITNESS_UTXO ->
           KeyLen1(k, Then(TxDeserialize(v), LAMBDA tx, rest :
               Ok([out EXCEPT !.non_witness_utxo = Some(tx)])))
      [] k[1] = PSBT_IN_WITNESS_UTXO ->
           KeyLen1(k, Then(TxOutDeserialize(v), LAMBDA o, rest :
               Ok([out EXCEPT !.witness_utxo = Some(o)])))
      [] k[1] = PSBT_IN_PARTIAL_SIG ->
           Then(DeserializePartialSigs(k, v), LAMBDA d, rest :
               Ok([out EXCEPT !.partial_sigs = DictUpdate(@, d)]))
      [] k[1] = PSBT_IN_SIGHASH_TYPE ->
           KeyLen1(k, Ok([out EXCEPT !.sighash_type = Some(FromLE(v))]))
      [] k[1] = PSBT_IN_REDEEM_SCRIPT ->
           KeyLen1(k, Ok([out EXCEPT !.redeem_script = v]))
      [] k[1] = PSBT_IN_WITNESS_SCRIPT ->
           KeyLen1(k, Ok([out EXCEPT !.witness_script = v]))
      [] k[1] = PSBT_IN_BIP32_DERIVATION ->
           Then(DeserializeHdKeypaths(k, v), LAMBDA d, rest :
               Ok([out EXCEPT !.hd_keypaths = DictUpdate(@, d)]))
      [] k[1] = PSBT_IN_FINAL_SCRIPTSIG ->
           KeyLen1(k, Ok([out EXCEPT !.final_script_sig = v]))
      [] k[1] = PSBT_IN_FINAL_SCRIPTWITNESS ->
           KeyLen1(k, Then(WitnessParse(v), LAMBDA w, rest :
               Ok([out EXCEPT !.final_script_witness = w])))
      [] OTHER ->
           Ok([out EXCEPT !.unknown = DictSet(@, k, v)])

RECURSIVE PsbtInDeserializeLoop(_, _)
PsbtInDeserializeLoop(out, items) ==
    IF items = <<>> THEN Ok(out)
    ELSE Then(PsbtInDeserializeEntry(out, items[1][1], items[1][2]), LAMBDA next, rest :
             PsbtInDeserializeLoop(next, Tail(items)))

\* PsbtIn.deserialize(input_map, assert_valid)
PsbtInDeserialize(input_map, assert_valid) ==
    Then(PsbtInDeserializeLoop(PsbtInDefault, input_map), LAMBDA out, rest :
        IF assert_valid THEN PsbtInAssertValid(out) ELSE Ok(out))

\* dataclass equality of two PsbtIn values
PsbtInEq(a, b) ==
    /\ a.non_witness_utxo = b.non_witness_utxo
    /\ a.witness_utxo = b.witness_utxo
    /\ DictEq(a.partial_sigs, b.partial_sigs)
    /\ a.sighash_type = b.sighash_type
    /\ a.redeem_script = b.redeem_script
    /\ a.witness_script = b.witness_script
    /\ DictEq(a.hd_keypaths, b.hd_keypaths)
    /\ a.final_script_sig = b.final_script_sig
    /\ a.final_script_witness = b.final_script_witness
    /\ DictEq(a.unknown, b.unknown)

----------------------------------------------------------------------------
(* psbt.py: PsbtOutput and Psbt as values, and the validator *)

\* PsbtOutput(): the dataclass defaults
PsbtOutputDefault ==
    [redeem_script |-> <<>>, witness_script |-> <<>>, hd_keypaths |-> <<>>,
     proprietary |-> <<>>, unknown |-> <<>>]

\* the scriptPubKey the loop takes from the input's UTXO (lines 389-396): the
\* local variable keeps its previous value when the input has no UTXO
UtxoScript(inp, tx_in, scriptPubKey) ==
    IF inp.non_witness_utxo # None
    THEN IF ~IsOk(TxAssertValid(inp.non_witness_utxo[1]))
         THEN Err("ValueError")                                  \* .txid serializes
         ELSE IF Txid(inp.non_witness_utxo[1]) # tx_in.prevout.hash
         THEN Err("AssertionError")
         ELSE IF tx_in.prevout.n >= Len(inp.non_witness_utxo[1].vout)
         THEN Err("IndexError")
         ELSE Ok(Some(inp.non_witness_utxo[1].vout[tx_in.prevout.n + 1].scriptPubKey))
    ELSE IF inp.witness_utxo # None
    THEN Ok(Some(inp.witness_utxo[1].scriptPubKey))
    ELSE Ok(scriptPubKey)

\* the same lookup inside the witness_script branch (lines 403-410), which
\* does not repeat the txid assertion
UtxoScriptAgain(inp, tx_in, scriptPubKey) ==
    IF inp.non_witness_utxo # None
    THEN IF tx_in.prevout.n >= Len(inp.non_witness_utxo[1].vout)
         THEN Err("IndexError")
         ELSE Ok(Some(inp.non_witness_utxo[1].vout[tx_in.prevout.n + 1].scriptPubKey))
    ELSE IF inp.witness_utxo # None
    THEN Ok(Some(inp.witness_utxo[1].scriptPubKey))
    ELSE Ok(scriptPubKey)

\* assert hash == payload_from_scriptPubKey(scriptPubKey)[1]; reading the
\* local variable before any assignment raises UnboundLocalError
HashCheck(hash, scriptPubKey) ==
    IF scriptPubKey = None THEN Err("UnboundLocalError")
    ELSE Then(PayloadFromScriptPubKey(scriptPubKey[1]), LAMBDA payload, rest :
             IF hash = payload THEN Ok(scriptPubKey) ELSE Err("AssertionError"))

\* lines 398-400
RedeemCheck(inp, scriptPubKey) ==
    IF inp.redeem_script # <<>>
    THEN HashCheck(hash160(ScriptEncode(inp.redeem_script)), scriptPubKey)
    ELSE Ok(scriptPubKey)

\* a validator that checks the witness script against the UTXO's script even
\* when a redeem script stands between them
WitnessCheckNoRedeem(inp, tx_in, scriptPubKey) ==
    IF inp.witness_script # <<>>
    THEN Then(UtxoScriptAgain(inp, tx_in, scriptPubKey), LAMBDA spk, rest :
             HashCheck(sha256(ScriptEncode(inp.witness_script)), spk))
    ELSE Ok(scriptPubKey)

\* lines 402-420: the witness script is checked against the redeem script
\* when there is one, else against the UTXO's script
WitnessCheck(inp, tx_in, scriptPubKey) ==
    IF inp.witness_script # <<>>
    THEN Then(UtxoScriptAgain(inp, tx_in, scriptPubKey), LAMBDA spk, rest :
             HashCheck(sha256(ScriptEncode(inp.witness_script)),
                       IF inp.redeem_script # <<>> THEN Some(inp.redeem_script) ELSE spk))
    ELSE Ok(scriptPubKey)

\* the loop of lines 388-420 from input i on; scriptPubKey is the value the
\* local variable holds on entry (None while unbound)
RECURSIVE AssertValidFrom(_, _, _)
AssertValidFrom(psbt, i, scriptPubKey) ==
    IF i > Len(psbt.tx.vin) THEN Ok(TRUE)
    ELSE IF i > Len(psbt.inputs) THEN Err("IndexError")          \* self.inputs[i]
    ELSE Then(UtxoScript(psbt.inputs[i], psbt.tx.vin[i], scriptPubKey), LAMBDA s1, r1 :
         Then(RedeemCheck(psbt.inputs[i], s1), LAMBDA s2, r2 :
         Then(WitnessCheck(psbt.inputs[i], psbt.tx.vin[i], s2), LAMBDA s3, r3 :
             AssertValidFrom(psbt, i + 1, s3))))

\* Psbt.assert_valid
PsbtAssertValid(psbt) ==
    IF \E i \in 1..Len(psbt.tx.vin) :
           psbt.tx.vin[i].scriptSig # <<>> \/ psbt.tx.vin[i].txinwitness # <<>>
    THEN Err("AssertionError")
    ELSE AssertValidFrom(psbt, 1, None)

----------------------------------------------------------------------------
(* The values the model draws its inputs from *)

\* two compressed public keys (33 bytes) and one uncompressed (65 bytes)
PubKeyA == [i \in 1..33 |-> IF i = 1 THEN 2 ELSE 17]

PubKeyB == [i \in 1..33 |-> IF i = 1 THEN 3 ELSE 34]

PubKeyU == [i \in 1..65 |-> IF i = 1 THEN 4 ELSE 51]

SigA == <<48, 10>>

SigB == <<48, 171>>

SigC == <<48, 205>>

\* a 1-of-1 multisig witness script, and the P2WSH script committing to it
WitnessScriptW == << <<"OP_1">>, Upper(Hex(PubKeyA)), <<"OP_1">>, <<"OP_CHECKMULTISIG">> >>

WitnessScriptX == << <<"OP_1">>, Upper(Hex(PubKeyB)), <<"OP_1">>, <<"OP_CHECKMULTISIG">> >>

P2WSH(witness_script) == << <<"OP_0">>, Upper(Hex(sha256(ScriptEncode(witness_script)))) >>

P2SH(redeem_script) ==
    << <<"OP_HASH160">>, Upper(Hex(hash160(ScriptEncode(redeem_script)))), <<"OP_EQUAL">> >>

HdKeypathA ==
    [xpub |-> Hex(PubKeyA), fingerprint |-> Hex(<<1, 2, 3, 4>>),
     derivation_path |-> Hex(<<0, 0, 0, 128>>)]

TxOutA == [nValue |-> 5000, scriptPubKey |-> P2WSH(WitnessScriptW)]

\* syntactically valid PsbtInput records: every field empty or set, the
\* partial signatures under 33-byte or 65-byte public keys
CodecPsbtInputs ==
    {[non_witness_utxo |-> None, witness_utxo |-> wu, partial_sigs |-> ps,
      sighash |-> sh, redeem_script |-> rs, witness_script |-> ws,
      hd_keypaths |-> hd, final_script_sig |-> fs, final_script_witness |-> fw,
      por_commitment |-> por, proprietary |-> pr, unknown |-> un] :
        wu \in {None, Some(TxOutA)},
        ps \in {<<>>,
                << <<Hex(PubKeyA), Hex(SigA)>> >>,
                << <<Hex(PubKeyA), Hex(SigA)>>, <<Hex(PubKeyB), Hex(SigB)>> >>,
                << <<Hex(PubKeyU), Hex(SigC)>> >>},
        sh \in {0, 1},
        rs \in {<<>>, P2WSH(WitnessScriptW)},
        ws \in {<<>>, WitnessScriptW},
        hd \in {<<>>, <<HdKeypathA>>},
        fs \in {<<>>, << Upper(Hex(SigA)) >>},
        fw \in {<<>>, << Hex(SigA), Hex(ScriptEncode(WitnessScriptW)) >>},
        por \in {None, Some(Hex(<<7, 7>>))},
        pr \in {<<>>,
                << <<1, << <<Hex(<<5>>), Hex(<<6>>)>> >> >> >>,
                << <<1, << <<Hex(<<5>>), Hex(<<6>>)>>, <<Hex(<<8>>), Hex(<<9>>)>> >> >> >>},
        un \in {<<>>, << <<Hex(<<240, 1>>), Hex(<<170>>)>> >>}}

\* syntactically valid PsbtIn records
CodecPsbtIns ==
    {[non_witness_utxo |-> None, witness_utxo |-> wu, partial_sigs |-> ps,
      sighash_type |-> sh, redeem_script |-> rs, witness_script |-> ws,
      hd_keypaths |-> hd, final_script_sig |-> fs, final_script_witness |-> fw,
      unknown |-> un] :
        wu \in {None, Some(TxOutA)},
        ps \in {<<>>,
                << <<PubKeyA, SigA>> >>,
                << <<PubKeyB, SigB>>, <<PubKeyA, SigA>> >>,
                << <<PubKeyU, SigC>> >>},
        sh \in {None, Some(1)},
        rs \in {<<>>, ScriptEncode(P2WSH(WitnessScriptW))},
        ws \in {<<>>, ScriptEncode(WitnessScriptW)},
        hd \in {<<>>, << <<PubKeyA, <<1, 2, 3, 4, 0, 0, 0, 128>> >> >>},
        fs \in {<<>>, SigA},
        fw \in {<<>>, << Hex(SigA), Hex(ScriptEncode(WitnessScriptW)) >>},
        un \in {<<>>, << <<<<240, 1>>, <<170>>>> >>}}

----------------------------------------------------------------------------
(* The codec round trip: serialize a record, frame it with the terminator  *)
(* Psbt.serialize appends, parse the map, decode the record.               *)

NoResult == Err("not run")

PipelineIdle ==
    /\ heap = <<>>
    /\ roots = <<>>
    /\ last = [op |-> "none"]
    /\ steps = 0

ValidatorIdle ==
    /\ vpsbt = <<>>
    /\ vres = NoResult

CodecIdle ==
    /\ crec = [cls |-> "none"]
    /\ cwire = NoResult
    /\ cmap = NoResult
    /\ cdec = NoResult
    /\ cpc = "idle"

InitCodec ==
    /\ PipelineIdle
    /\ ValidatorIdle
    /\ crec \in {[cls |-> "PsbtInput", rec |-> r] : r \in CodecPsbtInputs}
                  \cup {[cls |-> "PsbtIn", rec |-> r] : r \in CodecPsbtIns}
    /\ cwire = NoResult
    /\ cmap = NoResult
    /\ cdec = NoResult
    /\ cpc = "start"

\* input_map.serialize() of Psbt.serialize, for either record class
CodecSerialize ==
    /\ cpc = "start"
    /\ cwire' = IF crec.cls = "PsbtInput" THEN PsbtInputSerialize(crec.rec)
                ELSE PsbtInSerialize(crec.rec, TRUE)
    /\ cpc' = "serialized"
    /\ UNCHANGED <<heap, roots, last, steps, crec, cmap, cdec, vpsbt, vres>>

\* input_map, data = deserialize_map(data) of Psbt.deserialize, on the bytes
\* Psbt.serialize wrote for the record: its serialization and the terminator
CodecParseMap ==
    /\ cpc = "serialized"
    /\ IsOk(cwire)
    /\ cmap' = deserialize_map(cwire.val \o <<0>>)
    /\ cpc' = "mapped"
    /\ UNCHANGED <<heap, roots, last, steps, crec, cwire, cdec, vpsbt, vres>>

\* PsbtInput.decode(input_map) / PsbtIn.deserialize(input_map)
CodecDecode ==
    /\ cpc = "mapped"
    /\ IsOk(cmap)
    /\ cdec' = IF crec.cls = "PsbtInput" THEN PsbtInputDecode(cmap.val)
               ELSE PsbtInDeserialize(cmap.val, TRUE)
    /\ cpc' = "decoded"
    /\ UNCHANGED <<heap, roots, last, steps, crec, cwire, cmap, vpsbt, vres>>

NextCodec == CodecSerialize \/ CodecParseMap \/ CodecDecode

SpecCodec == InitCodec /\ [][NextCodec]_vars

----------------------------------------------------------------------------
(* Claims about the codec *)

\* dataclass equality for the record class under test
CodecRecEq(a, b) == IF crec.cls = "PsbtInput" THEN PsbtInputEq(a, b) ELSE PsbtInEq(a, b)

\* C1: round trip. For every syntactically valid record (unknown and
\* proprietary entries, 33- or 65-byte partial-signature public keys, any mix
\* of partial and final fields) serialization succeeds, the parse of the
\* serialized bytes succeeds and consumes them, and the decoded record equals
\* the original field for field, for PsbtInput.decode / PsbtInput.serialize
\* and for PsbtIn.deserialize / PsbtIn.serialize.
C1_RoundTrip ==
    /\ cpc \in {"serialized", "mapped", "decoded"} => IsOk(cwire)
    /\ cpc \in {"mapped", "decoded"} => IsOk(cmap) /\ cmap.rest = <<>>
    /\ cpc = "decoded" => IsOk(cdec) /\ CodecRecEq(cdec.val, crec.rec)

----------------------------------------------------------------------------
(* The validator on containers drawn from a catalogue *)

ZeroHash == Hex([i \in 1..32 |-> 0])

\* two previous transactions; PrevTxA is the one the skeletons spend
PrevTxA ==
    [nVersion |-> 1, nLockTime |-> 0,
     vin |-> << [prevout |-> [hash |-> ZeroHash, n |-> 0], scriptSig |-> <<>>,
                 nSequence |-> 0, txinwitness |-> <<>>] >>,
     vout |-> << [nValue |-> 5000, scriptPubKey |-> P2WSH(WitnessScriptW)],
                 [nValue |-> 6000, scriptPubKey |-> P2SH(P2WSH(WitnessScriptW))] >>]

PrevTxB == [PrevTxA EXCEPT !.nLockTime = 1]

PrevTxidA == Txid(PrevTxA)

\* a skeleton input spending output n of PrevTxA
SkeletonIn(n) ==
    [prevout |-> [hash |-> PrevTxidA, n |-> n], scriptSig |-> <<>>,
     nSequence |-> 0, txinwitness |-> <<>>]

SkeletonOut == [nValue |-> 4000, scriptPubKey |-> P2WSH(WitnessScriptX)]

Skeleton(vin) == [nVersion |-> 2, nLockTime |-> 0, vin |-> vin, vout |-> <<SkeletonOut>>]

\* skeletons: one input, two inputs, one input that still carries a
\* scriptSig, one input whose output index PrevTxA does not have
ValidatorSkeletons ==
    {Skeleton(<<SkeletonIn(0)>>),
     Skeleton(<<SkeletonIn(0), SkeletonIn(1)>>),
     Skeleton(<<[SkeletonIn(0) EXCEPT !.scriptSig = << Upper(Hex(SigA)) >>]>>),
     Skeleton(<<SkeletonIn(2)>>)}

\* input records as far as the validator reads them
ValidatorInputs ==
    {[PsbtInputDefault EXCEPT !.non_witness_utxo = u[1], !.witness_utxo = u[2],
                              !.redeem_script = rs, !.witness_script = ws] :
        u \in {<<None, None>>,
               <<None, Some([nValue |-> 5000, scriptPubKey |-> P2WSH(WitnessScriptW)])>>,
               <<None, Some([nValue |-> 6000, scriptPubKey |-> P2SH(P2WSH(WitnessScriptW))])>>,
               <<None, Some([nValue |-> 7000, scriptPubKey |-> << <<"OP_1">> >>])>>,
               <<Some(PrevTxA), None>>,
               <<Some(PrevTxB), None>>},
        rs \in {<<>>, P2WSH(WitnessScriptW)},
        ws \in {<<>>, WitnessScriptW, WitnessScriptX}}

\* records beyond the skeleton's inputs
ExtraInputs == {[PsbtInputDefault EXCEPT !.witness_script = WitnessScriptX]}

MaxExtra == 1

MaxOutputs == 2

\* all sequences over S of length n
RECURSIVE SeqsOfLen(_, _)
SeqsOfLen(S, n) ==
    IF n = 0 THEN {<<>>}
    ELSE {Append(q, x) : q \in SeqsOfLen(S, n - 1), x \in S}

\* Psbt(tx=..., inputs=..., outputs=...): the constructor checks nothing, so
\* the records need not be as many as the skeleton's inputs and outputs: up to
\* as many records from the catalogue as the skeleton has inputs, then up to
\* MaxExtra further records, and up to MaxOutputs output records
ValidatorPsbts(tx) ==
    {[tx |-> tx, inputs |-> ins \o extra, outputs |-> [j \in 1..no |-> PsbtOutputDefault],
      version |-> 0, hd_keypaths |-> <<>>, proprietary |-> <<>>, unknown |-> <<>>] :
        ins \in UNION {SeqsOfLen(ValidatorInputs, k) : k \in 0..Len(tx.vin)},
        extra \in UNION {SeqsOfLen(ExtraInputs, k) : k \in 0..MaxExtra},
        no \in 0..MaxOutputs}

InitValid ==
    /\ PipelineIdle
    /\ CodecIdle
    /\ \E tx \in ValidatorSkeletons : vpsbt \in ValidatorPsbts(tx)
    /\ vres = NoResult

\* psbt.assert_valid()
Validate ==
    /\ vres = NoResult
    /\ vres' = PsbtAssertValid(vpsbt)
    /\ UNCHANGED <<heap, roots, last, steps, crec, cwire, cmap, cdec, cpc, vpsbt>>

NextValid == Validate

SpecValid == InitValid /\ [][NextValid]_vars

----------------------------------------------------------------------------
(* Claims about the validator *)

HasUtxo(inp) == inp.non_witness_utxo # None \/ inp.witness_utxo # None

\* the previous transaction a record carries is the one the skeleton input
\* spends, and has the output it spends
UtxoRefOk(inp, tx_in) ==
    inp.non_witness_utxo # None =>
        /\ Txid(inp.non_witness_utxo[1]) = tx_in.prevout.hash
        /\ tx_in.prevout.n < Len(inp.non_witness_utxo[1].vout)

\* the locking script of the output a record's UTXO data describes
UtxoLockingScript(inp, tx_in) ==
    IF inp.non_witness_utxo # None
    THEN inp.non_witness_utxo[1].vout[tx_in.prevout.n + 1].scriptPubKey
    ELSE inp.witness_utxo[1].scriptPubKey

\* the script has a payload and it is h
PayloadIs(scriptPubKey, h) ==
    /\ IsOk(PayloadFromScriptPubKey(scriptPubKey))
    /\ PayloadFromScriptPubKey(scriptPubKey).val = h

\* the hash chain of one input that has UTXO data: HASH160 of the redeem
\* script is the payload of the UTXO's script, SHA-256 of the witness script
\* is the payload of the redeem script or, without one, of the UTXO's script
ChainHolds(inp, tx_in) ==
    /\ UtxoRefOk(inp, tx_in)
    /\ inp.redeem_script # <<>> =>
           PayloadIs(UtxoLockingScript(inp, tx_in), hash160(ScriptEncode(inp.redeem_script)))
    /\ inp.witness_script # <<>> =>
           PayloadIs(IF inp.redeem_script # <<>> THEN inp.redeem_script
                     ELSE UtxoLockingScript(inp, tx_in),
                     sha256(ScriptEncode(inp.witness_script)))

SkeletonClean ==
    \A i \in 1..Len(vpsbt.tx.vin) :
        vpsbt.tx.vin[i].scriptSig = <<>> /\ vpsbt.tx.vin[i].txinwitness = <<>>

Validated == vres # NoResult

\* C5: validator hash chain. When validation passes, every input that has a
\* witness script and UTXO data satisfies the chain (SHA-256 of the witness
\* script is the payload of the redeem script when one is set, else of the
\* UTXO's script; HASH160 of a redeem script is the payload of the UTXO's
\* script); and a container with an unsigned skeleton, a record for every
\* skeleton input, UTXO data in every record and the chain holding at every
\* input passes.  A mismatch at any such input fails validation.
C5_HashChain ==
    Validated =>
        /\ IsOk(vres) =>
               \A i \in 1..Len(vpsbt.tx.vin) :
                   HasUtxo(vpsbt.inputs[i]) /\ vpsbt.inputs[i].witness_script # <<>> =>
                       ChainHolds(vpsbt.inputs[i], vpsbt.tx.vin[i])
        /\ ( /\ SkeletonClean
             /\ Len(vpsbt.inputs) >= Len(vpsbt.tx.vin)
             /\ \A i \in 1..Len(vpsbt.tx.vin) :
                    /\ HasUtxo(vpsbt.inputs[i])
                    /\ ChainHolds(vpsbt.inputs[i], vpsbt.tx.vin[i]) ) => IsOk(vres)

\* a container with two inputs passed validation, one input spending a P2WSH
\* output with the witness script alone, the other a P2SH-P2WSH output
\* through a redeem script
C5_Witness ==
    /\ Validated
    /\ IsOk(vres)
    /\ Len(vpsbt.tx.vin) = 2
    /\ vpsbt.inputs[1].witness_script # <<>> /\ vpsbt.inputs[1].redeem_script = <<>>
    /\ vpsbt.inputs[2].witness_script # <<>> /\ vpsbt.inputs[2].redeem_script # <<>>
    /\ HasUtxo(vpsbt.inputs[1]) /\ HasUtxo(vpsbt.inputs[2])

\* C6: validator tolerance. With an unsigned skeleton and a record for every
\* skeleton input, validation passes exactly when every input that has UTXO
\* data satisfies its hash chain: an input with neither UTXO raises no error
\* and has its script-hash checks skipped, whatever its index and its
\* redeem_script / witness_script, and nothing about it depends on the UTXO
\* data of another input.
C6_Tolerance ==
    Validated /\ SkeletonClean /\ Len(vpsbt.inputs) >= Len(vpsbt.tx.vin) =>
        (IsOk(vres) <=>
            \A i \in 1..Len(vpsbt.tx.vin) :
                HasUtxo(vpsbt.inputs[i]) => ChainHolds(vpsbt.inputs[i], vpsbt.tx.vin[i]))

\* C7: record-count invariant. Validation fails for every container whose
\* number of input records differs from the number of skeleton inputs or
\* whose number of output records differs from the number of skeleton outputs.
C7_RecordCount ==
    Validated /\ ( \/ Len(vpsbt.inputs) # Len(vpsbt.tx.vin)
                   \/ Len(vpsbt.outputs) # Len(vpsbt.tx.vout) ) => ~IsOk(vres)

----------------------------------------------------------------------------
(* The object heap.  The pipeline functions of psbt.py work on Python      *)
(* objects that they share and mutate, so containers, records, lists and   *)
(* dictionaries are objects at addresses of a heap; a field or an element  *)
(* is a cell, a reference to an object or an immutable value.  Strings,    *)
(* numbers, script tokens, transaction outputs and the UTXO data of a      *)
(* record are kept as values: no pipeline function mutates them.           *)

Ref(a) == <<"ref", a>>

Val(v) == <<"val", v>>

IsRef(c) == c[1] = "ref"

\* the outcome of a function working on the heap: the heap it leaves behind,
\* the exception it raised ("" for none) and the cell it returned
Done(h, c) == [heap |-> h, err |-> "", cell |-> c]

Raise(h, kind) == [heap |-> h, err |-> kind, cell |-> Val(None)]

AndThen(r, F(_, _)) == IF r.err # "" THEN r ELSE F(r.heap, r.cell)

\* a list holds cells; a dict holds <<key, cell>> pairs in insertion order and
\* an instance of a class <<field, cell>> pairs in the order of its __dict__
ItemCell(o, i) == IF o.kind = "list" THEN o.body[i] ELSE o.body[i][2]

WithCell(o, i, c) == IF o.kind = "list" THEN c ELSE <<o.body[i][1], c>>

\* getattr(object at a, f)
FieldCell(h, a, f) ==
    h[a].body[CHOOSE i \in 1..Len(h[a].body) : h[a].body[i][1] = f][2]

\* setattr(object at a, f, c)
SetField(h, a, f, c) ==
    [h EXCEPT ![a].body = [i \in 1..Len(@) |-> IF @[i][1] = f THEN <<f, c>> ELSE @[i]]]

\* a new object
New(h, kind, body) == Done(Append(h, [kind |-> kind, body |-> body]), Ref(Len(h) + 1))

\* the value a cell stands for, all references followed: what == compares
RECURSIVE DeepValue(_, _)
DeepValue(h, c) ==
    IF ~IsRef(c) THEN c[2]
    ELSE IF h[c[2]].kind = "list"
    THEN [i \in 1..Len(h[c[2]].body) |-> DeepValue(h, h[c[2]].body[i])]
    ELSE IF h[c[2]].kind = "dict"
    THEN [i \in 1..Len(h[c[2]].body) |->
             <<h[c[2]].body[i][1], DeepValue(h, h[c[2]].body[i][2])>>]
    ELSE [f \in {h[c[2]].body[i][1] : i \in 1..Len(h[c[2]].body)} |->
             DeepValue(h, FieldCell(h, c[2], f))]

\* the objects reachable from a cell
RECURSIVE Reach(_, _)
Reach(h, c) ==
    IF ~IsRef(c) THEN {}
    ELSE {c[2]} \cup UNION {Reach(h, ItemCell(h[c[2]], i)) : i \in 1..Len(h[c[2]].body)}

\* copy.deepcopy: every reachable object is copied once (the memo keeps the
\* sharing inside the copied graph), nothing is shared with the original
RECURSIVE CopyCell(_, _, _)
RECURSIVE CopyItems(_, _, _, _)
RECURSIVE CopyItem(_, _, _)
CopyCell(h, memo, c) ==
    IF ~IsRef(c) THEN [heap |-> h, memo |-> memo, cell |-> c]
    ELSE IF \E i \in 1..Len(memo) : memo[i][1] = c[2]
    THEN [heap |-> h, memo |-> memo,
          cell |-> Ref(memo[CHOOSE i \in 1..Len(memo) : memo[i][1] = c[2]][2])]
    ELSE CopyItems(Append(h, [kind |-> h[c[2]].kind, body |-> <<>>]),
                   Append(memo, <<c[2], Len(h) + 1>>), c[2], Len(h) + 1)

CopyItems(h, memo, src, dst) ==
    IF Len(h[dst].body) = Len(h[src].body)
    THEN [heap |-> h, memo |-> memo, cell |-> Ref(dst)]
    ELSE CopyItem(CopyCell(h, memo, ItemCell(h[src], Len(h[dst].body) + 1)), src, dst)

CopyItem(r, src, dst) ==
    CopyItems([r.heap EXCEPT ![dst].body =
                   Append(@, WithCell(r.heap[src], Len(@) + 1, r.cell))],
              r.memo, src, dst)

Copied(r) == Done(r.heap, r.cell)

deepcopy(h, c) == Copied(CopyCell(h, <<>>, c))

\* object literals: <<"val", v>>, or <<kind, items>> with the items literals
\* (list) or <<key, literal>> pairs (dict, class instance)
RECURSIVE Construct(_, _)
RECURSIVE ConstructItems(_, _, _)
RECURSIVE ConstructItem(_, _, _)
Construct(h, lit) ==
    IF lit[1] = "val" THEN Done(h, lit)
    ELSE ConstructItems(Append(h, [kind |-> lit[1], body |-> <<>>]), lit, Len(h) + 1)

ConstructItems(h, lit, dst) ==
    IF Len(h[dst].body) = Len(lit[2]) THEN Done(h, Ref(dst))
    ELSE ConstructItem(Construct(h, IF lit[1] = "list" THEN lit[2][Len(h[dst].body) + 1]
                                    ELSE lit[2][Len(h[dst].body) + 1][2]),
                       lit, dst)

ConstructItem(r, lit, dst) ==
    ConstructItems([r.heap EXCEPT ![dst].body =
                       Append(@, IF lit[1] = "list" THEN r.cell
                                 ELSE <<lit[2][Len(@) + 1][1], r.cell>>)],
                   lit, dst)

ListLit(values) == <<"list", [i \in 1..Len(values) |-> Val(values[i])]>>

DictLit(pairs) == <<"dict", [i \in 1..Len(pairs) |-> <<pairs[i][1], Val(pairs[i][2])>>]>>

\* Dict[int, Dict[str, str]]
ProprietaryLit(p) == <<"dict", [i \in 1..Len(p) |-> <<p[i][1], DictLit(p[i][2])>>]>>

\* PsbtInput(...), fields in the order of the dataclass (lines 30-41)
PsbtInputLit(v) ==
    <<"PsbtInput",
      << <<"non_witness_utxo", Val(v.non_witness_utxo)>>,
         <<"witness_utxo", Val(v.witness_utxo)>>,
         <<"partial_sigs", DictLit(v.partial_sigs)>>,
         <<"sighash", Val(v.sighash)>>,
         <<"redeem_script", ListLit(v.redeem_script)>>,
         <<"witness_script", ListLit(v.witness_script)>>,
         <<"hd_keypaths", ListLit(v.hd_keypaths)>>,
         <<"final_script_sig", ListLit(v.final_script_sig)>>,
         <<"final_script_witness", ListLit(v.final_script_witness)>>,
         <<"por_commitment", Val(v.por_commitment)>>,
         <<"proprietary", ProprietaryLit(v.proprietary)>>,
         <<"unknown", DictLit(v.unknown)>> >> >>

\* PsbtOutput(...) (lines 186-190)
PsbtOutputLit(v) ==
    <<"PsbtOutput",
      << <<"redeem_script", ListLit(v.redeem_script)>>,
         <<"witness_script", ListLit(v.witness_script)>>,
         <<"hd_keypaths", ListLit(v.hd_keypaths)>>,
         <<"proprietary", ProprietaryLit(v.proprietary)>>,
         <<"unknown", DictLit(v.unknown)>> >> >>

TxInLit(v) ==
    <<"TxIn",
      << <<"prevout", Val(v.prevout)>>,
         <<"scriptSig", ListLit(v.scriptSig)>>,
         <<"nSequence", Val(v.nSequence)>>,
         <<"txinwitness", ListLit(v.txinwitness)>> >> >>

\* Tx(...) (tx.py lines 35-38)
TxLit(v) ==
    <<"Tx",
      << <<"nVersion", Val(v.nVersion)>>,
         <<"nLockTime", Val(v.nLockTime)>>,
         <<"vin", <<"list", [i \in 1..Len(v.vin) |-> TxInLit(v.vin[i])]>> >>,
         <<"vout", Val(v.vout)>> >> >>

\* Psbt(...) (lines 272-278)
PsbtLit(v) ==
    <<"Psbt",
      << <<"tx", TxLit(v.tx)>>,
         <<"inputs", <<"list", [i \in 1..Len(v.inputs) |-> PsbtInputLit(v.inputs[i])]>> >>,
         <<"outputs", <<"list", [i \in 1..Len(v.outputs) |-> PsbtOutputLit(v.outputs[i])]>> >>,
         <<"version", Val(v.version)>>,
         <<"hd_keypaths", Val(v.hd_keypaths)>>,
         <<"proprietary", Val(v.proprietary)>>,
         <<"unknown", DictLit(v.unknown)>> >> >>

----------------------------------------------------------------------------
(* psbt.py, lines 442-545: the pipeline functions on the heap *)

\* the elements of the list in field f of the object at a
Elements(h, a, f) == h[FieldCell(h, a, f)[2]].body

\* setattr(object at a, f, a new list / dict with this body)
SetNew(h, a, f, kind, body) ==
    SetField(Append(h, [kind |-> kind, body |-> body]), a, f, Ref(Len(h) + 1))

\* a wrapper that keeps the unlocking data of the transaction
ClearSignaturesKept(h, tx, i) == h

\* for input in tx.vin: input.scriptSig = []; input.txinwitness = []
RECURSIVE ClearSignatures(_, _, _)
ClearSignatures(h, tx, i) ==
    IF i > Len(Elements(h, tx, "vin")) THEN h
    ELSE ClearSignatures(
             SetNew(SetNew(h, Elements(h, tx, "vin")[i][2], "scriptSig", "list", <<>>),
                    Elements(h, tx, "vin")[i][2], "txinwitness", "list", <<>>),
             tx, i + 1)

\* Psbt(tx=tx, inputs=[PsbtInput() ...], outputs=[PsbtOutput() ...], unknown={})
NewPsbt(h, tx) ==
    Construct(h,
        <<"Psbt",
          << <<"tx", Val(0)>>,
             <<"inputs", <<"list", [i \in 1..Len(Elements(h, tx, "vin")) |->
                                       PsbtInputLit(PsbtInputDefault)]>> >>,
             <<"outputs", <<"list", [i \in 1..Len(FieldCell(h, tx, "vout")[2]) |->
                                        PsbtOutputLit(PsbtOutputDefault)]>> >>,
             <<"version", Val(0)>>,
             <<"hd_keypaths", Val(<<>>)>>,
             <<"proprietary", Val(<<>>)>>,
             <<"unknown", DictLit(<<>>)>> >> >>)

\* psbt_from_tx(tx), tx the object at t
psbt_from_tx(h, t) ==
    AndThen(deepcopy(h, Ref(t)), LAMBDA h1, tx :
    AndThen(NewPsbt(ClearSignatures(h1, tx[2], 1), tx[2]), LAMBDA h2, psbt :
        Done(SetField(h2, psbt[2], "tx", tx), psbt)))

\* bool(value) of a field that holds neither a dict nor a list
ScalarTruthy(key, v) ==
    IF key = "sighash" THEN v # 0
    ELSE IF key = "por_commitment" THEN Truthy(v)                \* "" is false
    ELSE v # None

\* a combiner that appends every element of the later list
ListExtendAll(ours, theirs) == ours \o theirs

\* for x in theirs: if x not in ours: ours.append(x)
RECURSIVE ListExtend(_, _)
ListExtend(ours, theirs) ==
    IF theirs = <<>> THEN ours
    ELSE ListExtend(IF InSeq(Head(theirs), ours) THEN ours ELSE Append(ours, Head(theirs)),
                    Tail(theirs))

\* one key of _combine's inner loop (lines 459-477): ours and theirs are the
\* cells getattr(out, key) and getattr(psbt_map, key)
CombineKey(h, out, key, ours, theirs) ==
    IF IsRef(theirs) /\ h[theirs[2]].kind = "dict"
    THEN IF h[ours[2]].body # <<>>
         THEN Done([h EXCEPT ![ours[2]].body = DictUpdate(@, h[theirs[2]].body)], Ref(out))
         ELSE Done(SetField(h, out, key, theirs), Ref(out))
    ELSE IF IsRef(theirs) /\ h[theirs[2]].kind = "list"
    THEN IF h[ours[2]].body # <<>>
         THEN Done([h EXCEPT ![ours[2]].body = ListExtend(@, h[theirs[2]].body)], Ref(out))
         ELSE Done(SetField(h, out, key, theirs), Ref(out))
    ELSE IF ScalarTruthy(key, theirs[2])
    THEN IF ScalarTruthy(key, ours[2])
         THEN IF theirs[2] = ours[2] THEN Done(h, Ref(out)) ELSE Raise(h, "AssertionError")
         ELSE Done(SetField(h, out, key, theirs), Ref(out))
    ELSE Done(h, Ref(out))

\* for key in psbt_map.__dict__, from the k-th key on
RECURSIVE CombineKeys(_, _, _, _)
CombineKeys(h, out, psbt_map, k) ==
    IF k > Len(h[psbt_map].body) THEN Done(h, Ref(out))
    ELSE AndThen(CombineKey(h, out, h[psbt_map].body[k][1],
                            FieldCell(h, out, h[psbt_map].body[k][1]),
                            h[psbt_map].body[k][2]),
                 LAMBDA h1, c : CombineKeys(h1, out, psbt_map, k + 1))

\* for psbt_map in maps[1:], from the m-th map on; out.assert_valid() checks
\* nothing (lines 177-178, 263-264)
RECURSIVE CombineMaps(_, _, _)
CombineMaps(h, maps, m) ==
    IF m > Len(maps) THEN Done(h, Ref(maps[1]))
    ELSE AndThen(CombineKeys(h, maps[1], maps[m], 1),
                 LAMBDA h1, c : CombineMaps(h1, maps, m + 1))

\* _combine(maps), maps the addresses of the records
combine(h, maps) == CombineMaps(h, maps, 2)

\* [_combine([psbt.<field>[x] for psbt in psbts]) for x in range(n)] from
\* position x on (positions count from 1 here); done is the list so far
RECURSIVE CombinePositions(_, _, _, _, _, _)
CombinePositions(h, psbts, field, x, n, done) ==
    IF x > n THEN New(h, "list", done)
    ELSE IF \E k \in 1..Len(psbts) : Len(Elements(h, psbts[k], field)) < x
    THEN Raise(h, "IndexError")
    ELSE AndThen(combine(h, [k \in 1..Len(psbts) |-> Elements(h, psbts[k], field)[x][2]]),
                 LAMBDA h1, out :
                     CombinePositions(h1, psbts, field, x + 1, n, Append(done, out)))

\* the last loop of combine_psbts (lines 498-502), from the k-th container on
RECURSIVE MergeUnknown(_, _, _)
MergeUnknown(h, psbts, k) ==
    IF k > Len(psbts) THEN h
    ELSE MergeUnknown(
             IF Elements(h, psbts[1], "unknown") # <<>>
             THEN [h EXCEPT ![FieldCell(h, psbts[1], "unknown")[2]].body =
                                DictUpdate(@, Elements(h, psbts[k], "unknown"))]
             ELSE SetField(h, psbts[1], "unknown", FieldCell(h, psbts[k], "unknown")),
             psbts, k + 1)

\* psbt.tx of the container at p, as a value
TxOf(h, p) == DeepValue(h, FieldCell(h, p, "tx"))

\* a combiner that compares no transaction id
CheckTxidsSkipped(h, psbts, k) == ""

\* lines 484-486 from the k-th container on: the exception raised, "" for
\* none.  Reading .txid serializes the transaction, which validates it first
RECURSIVE CheckTxids(_, _, _)
CheckTxids(h, psbts, k) ==
    IF k > Len(psbts) THEN ""
    ELSE IF ~IsOk(TxAssertValid(TxOf(h, psbts[k]))) THEN "ValueError"
    ELSE IF Txid(TxOf(h, psbts[k])) # Txid(TxOf(h, psbts[1])) THEN "AssertionError"
    ELSE CheckTxids(h, psbts, k + 1)

\* combine_psbts(psbts), psbts the addresses of the containers.  After the
\* first loop the variable psbt is the last container, or unbound when the
\* list has one element; the merged input records are assigned to it and the
\* merged output records to final_psbt, the first container, which is returned.
combine_psbts(h, psbts) ==
    IF CheckTxids(h, psbts, 1) # ""
    THEN Raise(h, CheckTxids(h, psbts, 1))
    ELSE IF Len(psbts) = 1 THEN Raise(h, "UnboundLocalError")
    ELSE AndThen(CombinePositions(h, psbts, "inputs", 1,
                                  Len(Elements(h, psbts[Len(psbts)], "inputs")), <<>>),
                 LAMBDA h1, inputs :
         AndThen(CombinePositions(SetField(h1, psbts[Len(psbts)], "inputs", inputs),
                                  psbts, "outputs", 1,
                                  Len(Elements(h1, psbts[Len(psbts)], "outputs")), <<>>),
                 LAMBDA h2, outputs :
             Done(MergeUnknown(SetField(h2, psbts[1], "outputs", outputs), psbts, 1),
                  Ref(psbts[1]))))

\* a.upper() for a in list(partial_sigs.values())
UpperAll(values) == [i \in 1..Len(values) |-> Upper(values[i])]

\* a finalizer that forgets the placeholder of the multisig witness stack
FinalScriptWitnessNoPlaceholder(v) ==
    DictValues(v.partial_sigs) \o << Hex(ScriptEncode(v.witness_script)) >>

\* lines 515-520: final_script_witness of a record with a witness script
FinalScriptWitness(v) ==
    (IF Len(v.partial_sigs) > 1 THEN << <<>> >> ELSE <<>>)
        \o DictValues(v.partial_sigs) \o << Hex(ScriptEncode(v.witness_script)) >>

\* a finalizer that forgets the placeholder of the legacy multisig script
FinalScriptSigNoPlaceholder(v) ==
    IF v.witness_script # <<>>
    THEN << Upper(Hex(ScriptEncode(v.redeem_script))) >>
    ELSE UpperAll(DictValues(v.partial_sigs))
             \o << Upper(Hex(ScriptEncode(v.redeem_script))) >>

\* lines 512-514 and 522-529: final_script_sig
FinalScriptSig(v) ==
    IF v.witness_script # <<>>
    THEN << Upper(Hex(ScriptEncode(v.redeem_script))) >>
    ELSE (IF Len(v.partial_sigs) > 1 THEN << <<"int", 0>> >> ELSE <<>>)
             \o UpperAll(DictValues(v.partial_sigs))
             \o << Upper(Hex(ScriptEncode(v.redeem_script))) >>

\* a finalizer that leaves the partial signatures in the record
ClearPartialKeepSigs(h, rec) ==
    SetField(
        SetNew(SetNew(SetNew(SetField(h, rec, "sighash", Val(0)),
                             rec, "redeem_script", "list", <<>>),
                      rec, "witness_script", "list", <<>>),
               rec, "hd_keypaths", "list", <<>>),
        rec, "por_commitment", Val(None))

\* lines 530-535
ClearPartial(h, rec) ==
    SetField(
        SetNew(SetNew(SetNew(SetField(SetNew(h, rec, "partial_sigs", "dict", <<>>),
                                      rec, "sighash", Val(0)),
                             rec, "redeem_script", "list", <<>>),
                      rec, "witness_script", "list", <<>>),
               rec, "hd_keypaths", "list", <<>>),
        rec, "por_commitment", Val(None))

\* a new list of values
Cells(values) == [i \in 1..Len(values) |-> Val(values[i])]

\* lines 511-535 for the record at rec, whose value is v
FinalizeRecord(h, rec, v) ==
    ClearPartial(
        IF v.witness_script # <<>>
        THEN SetNew(SetNew(h, rec, "final_script_sig", "list", Cells(FinalScriptSig(v))),
                    rec, "final_script_witness", "list", Cells(FinalScriptWitness(v)))
        ELSE SetNew(h, rec, "final_script_sig", "list", Cells(FinalScriptSig(v))),
        rec)

\* a finalizer without the assertion of line 510
HasSignaturesUnchecked(v) == TRUE

\* assert psbt_in.partial_sigs
HasSignatures(v) == v.partial_sigs # <<>>

\* for psbt_in in psbt.inputs, from the i-th record of the copy on.  When the
\* assertion fails the copy is dropped with the exception: the caller is left
\* with the heap h0 it had
RECURSIVE FinalizeInputs(_, _, _, _)
FinalizeInputs(h0, h, psbt, i) ==
    IF i > Len(Elements(h, psbt, "inputs")) THEN Done(h, Ref(psbt))
    ELSE IF ~HasSignatures(DeepValue(h, Elements(h, psbt, "inputs")[i]))
    THEN Raise(h0, "AssertionError")
    ELSE FinalizeInputs(h0,
             FinalizeRecord(h, Elements(h, psbt, "inputs")[i][2],
                            DeepValue(h, Elements(h, psbt, "inputs")[i])),
             psbt, i + 1)

\* finalize_psbt(psbt), psbt the container at p
finalize_psbt(h, p) ==
    AndThen(deepcopy(h, Ref(p)), LAMBDA h1, psbt : FinalizeInputs(h, h1, psbt[2], 1))

\* an extractor that never copies the witness
RECURSIVE ExtractInputsNoWitness(_, _, _, _)
ExtractInputsNoWitness(h, psbt, tx, i) ==
    IF i > Len(Elements(h, tx, "vin")) THEN Done(h, Ref(tx))
    ELSE IF i > Len(Elements(h, psbt, "inputs")) THEN Raise(h, "IndexError")
    ELSE ExtractInputsNoWitness(
             SetField(h, Elements(h, tx, "vin")[i][2], "scriptSig",
                      FieldCell(h, Elements(h, psbt, "inputs")[i][2], "final_script_sig")),
             psbt, tx, i + 1)

\* for i, vin in enumerate(tx.vin), from the i-th input on (lines 541-544)
RECURSIVE ExtractInputs(_, _, _, _)
ExtractInputs(h, psbt, tx, i) ==
    IF i > Len(Elements(h, tx, "vin")) THEN Done(h, Ref(tx))
    ELSE IF i > Len(Elements(h, psbt, "inputs")) THEN Raise(h, "IndexError")
    ELSE ExtractInputs(
             IF Elements(h, Elements(h, psbt, "inputs")[i][2], "final_script_witness") # <<>>
             THEN SetField(SetField(h, Elements(h, tx, "vin")[i][2], "scriptSig",
                                    FieldCell(h, Elements(h, psbt, "inputs")[i][2],
                                              "final_script_sig")),
                           Elements(h, tx, "vin")[i][2], "txinwitness",
                           FieldCell(h, Elements(h, psbt, "inputs")[i][2],
                                     "final_script_witness"))
             ELSE SetField(h, Elements(h, tx, "vin")[i][2], "scriptSig",
                           FieldCell(h, Elements(h, psbt, "inputs")[i][2],
                                     "final_script_sig")),
             psbt, tx, i + 1)

\* extract_tx(psbt), psbt the container at p
extract_tx(h, p) == ExtractInputs(h, p, FieldCell(h, p, "tx")[2], 1)

----------------------------------------------------------------------------
(* The pipeline: a caller holds a transaction and two containers and calls *)
(* psbt_from_tx, combine_psbts, finalize_psbt and extract_tx on them and   *)
(* on what the calls return.                                               *)

\* a signed transaction, a transaction without inputs, one with two inputs
UnsignedTx == Skeleton(<<SkeletonIn(0)>>)

SignedTx == Skeleton(<<[SkeletonIn(0) EXCEPT !.scriptSig = << Upper(Hex(SigA)) >>]>>)

EmptyTx == Skeleton(<<>>)

TwoInputTx == Skeleton(<<SkeletonIn(0), SkeletonIn(1)>>)

PsbtOf(tx, inputs, unknown) ==
    [tx |-> tx, inputs |-> inputs, outputs |-> <<PsbtOutputDefault>>, version |-> 0,
     hd_keypaths |-> <<>>, proprietary |-> <<>>, unknown |-> unknown]

\* one signature, witness path
InputOneSig ==
    [PsbtInputDefault EXCEPT
        !.witness_utxo = Some(TxOutA),
        !.partial_sigs = << <<Hex(PubKeyA), Hex(SigA)>> >>,
        !.witness_script = WitnessScriptW,
        !.proprietary = << <<1, << <<Hex(<<5>>), Hex(<<6>>)>> >> >> >>,
        !.unknown = << <<Hex(<<240, 1>>), Hex(<<170>>)>> >>]

\* a second signer: another key, another signature under the first key,
\* another entry of the same proprietary prefix
InputOtherSigs ==
    [PsbtInputDefault EXCEPT
        !.partial_sigs = << <<Hex(PubKeyB), Hex(SigB)>>, <<Hex(PubKeyA), Hex(SigC)>> >>,
        !.sighash = 1,
        !.witness_script = WitnessScriptW,
        !.proprietary = << <<1, << <<Hex(<<8>>), Hex(<<9>>)>> >> >> >>,
        !.unknown = << <<Hex(<<240, 2>>), Hex(<<187>>)>> >>]

\* two signatures, no witness script
InputLegacy ==
    [PsbtInputDefault EXCEPT
        !.partial_sigs = << <<Hex(PubKeyA), Hex(SigA)>>, <<Hex(PubKeyB), Hex(SigB)>> >>,
        !.redeem_script = WitnessScriptX,
        !.hd_keypaths = <<HdKeypathA>>,
        !.por_commitment = Some(Hex(<<7, 7>>))]

\* two signatures, witness script behind a redeem script
InputNested ==
    [PsbtInputDefault EXCEPT
        !.witness_utxo = Some([nValue |-> 6000,
                               scriptPubKey |-> P2SH(P2WSH(WitnessScriptW))]),
        !.partial_sigs = << <<Hex(PubKeyA), Hex(SigA)>>, <<Hex(PubKeyB), Hex(SigB)>> >>,
        !.redeem_script = P2WSH(WitnessScriptW),
        !.witness_script = WitnessScriptW]

\* a record that carries the previous transaction, one signature and no
\* script, and an empty proof-of-reserves commitment (key 0x09, empty value)
InputUtxoOnly ==
    [PsbtInputDefault EXCEPT
        !.non_witness_utxo = Some(PrevTxA),
        !.partial_sigs = << <<Hex(PubKeyA), Hex(SigA)>> >>,
        !.por_commitment = Some(<<>>)]

\* the nested record with a proof-of-reserves commitment
InputNestedPor == [InputNested EXCEPT !.por_commitment = Some(Hex(<<7, 7>>))]

\* the nested record as finalize_psbt leaves it
InputFinalized ==
    [PsbtInputDefault EXCEPT
        !.witness_utxo = InputNested.witness_utxo,
        !.final_script_sig = FinalScriptSig(InputNested),
        !.final_script_witness = FinalScriptWitness(InputNested)]

PsbtOneSig == PsbtOf(UnsignedTx, <<InputOneSig>>, <<>>)

PsbtUtxoOnly == PsbtOf(UnsignedTx, <<InputUtxoOnly>>, <<>>)

PsbtNestedPor == PsbtOf(UnsignedTx, <<InputNestedPor>>, <<>>)

PsbtFinalized == PsbtOf(UnsignedTx, <<InputFinalized>>, <<>>)

PsbtOtherSigs == PsbtOf(UnsignedTx, <<InputOtherSigs>>, << <<Hex(<<1>>), Hex(<<2>>)>> >>)

\* what psbt_from_tx makes of the unsigned transaction
PsbtBlank == PsbtOf(UnsignedTx, <<PsbtInputDefault>>, <<>>)

PsbtLegacy == PsbtOf(UnsignedTx, <<InputLegacy>>, << <<Hex(<<1>>), Hex(<<3>>)>> >>)

PsbtNested == PsbtOf(UnsignedTx, <<InputNested>>, <<>>)

PsbtNoInputs == PsbtOf(EmptyTx, <<>>, <<>>)

PsbtTwoInputs == PsbtOf(TwoInputTx, <<InputOneSig, PsbtInputDefault>>, <<>>)

\* the two containers the caller starts with
StartPairs ==
    {<<PsbtOneSig, PsbtOtherSigs>>,
     <<PsbtNested, PsbtLegacy>>,
     <<PsbtBlank, PsbtTwoInputs>>,
     <<PsbtNoInputs, PsbtFinalized>>,
     <<PsbtUtxoOnly, PsbtNestedPor>>,
     <<PsbtNested, PsbtOneSig>>,
     <<PsbtOneSig, PsbtOneSig>>}

MaxSteps == 2

\* the caller's variables: the class, the address and the call that made it
Variable(cls, a, origin) == [cls |-> cls, ref |-> a, origin |-> origin]

Loaded(st, cls, r) ==
    [heap |-> r.heap, roots |-> Append(st.roots, Variable(cls, r.cell[2], "caller"))]

Load(st, cls, lit) == Loaded(st, cls, Construct(st.heap, lit))

Start(a, b) ==
    Load(Load(Load([heap |-> <<>>, roots |-> <<>>], "Tx", TxLit(SignedTx)),
              "Psbt", PsbtLit(a)),
         "Psbt", PsbtLit(b))

\* nothing is constructed yet
Init ==
    /\ CodecIdle
    /\ ValidatorIdle
    /\ PipelineIdle

\* the caller constructs a signed transaction and two containers
Construction ==
    /\ roots = <<>>
    /\ \E st \in {Start(pair[1], pair[2]) : pair \in StartPairs} :
           /\ heap' = st.heap
           /\ roots' = st.roots
    /\ UNCHANGED <<last, steps, crec, cwire, cmap, cdec, cpc, vpsbt, vres>>

\* the result is bound to a new variable unless a variable holds that object
Bind(vs, op, r) ==
    IF r.err # "" \/ \E k \in 1..Len(vs) : vs[k].ref = r.cell[2] THEN vs
    ELSE Append(vs, Variable(IF op = "extract_tx" THEN "Tx" ELSE "Psbt", r.cell[2], op))

\* the values of the containers finalize_psbt returned, as they are in heap h
FinalizedIn(h, vs) ==
    [k \in {j \in 1..Len(vs) : vs[j].origin = "finalize_psbt"} |-> DeepValue(h, Ref(vs[k].ref))]

\* psbt.assert_valid() on the container a call returned: "" when it passes,
\* the exception when it raises, "none" when no container was returned
ResultValid(op, r) ==
    IF r.err = "" /\ op # "extract_tx"
    THEN PsbtAssertValid(DeepValue(r.heap, r.cell)).err
    ELSE "none"

\* psbt.assert_valid() on each container given to a call
ArgsValid(h, op, args) ==
    [i \in 1..Len(args) |->
        IF op = "psbt_from_tx" THEN "none"
        ELSE PsbtAssertValid(DeepValue(h, Ref(args[i]))).err]

\* psbt.tx.txid of each container given to a call, None when reading it raises
ArgsTxid(h, op, args) ==
    [i \in 1..Len(args) |->
        IF op # "psbt_from_tx" /\ IsOk(TxAssertValid(TxOf(h, args[i])))
        THEN Some(Txid(TxOf(h, args[i])))
        ELSE None]

\* tx.serialize() of the transaction extract_tx returned, None when there is
\* none or when serialize raises
Serialized(op, r) ==
    IF op = "extract_tx" /\ r.err = "" /\ IsOk(TxAssertValid(DeepValue(r.heap, r.cell)))
    THEN Some(TxSerialize(DeepValue(r.heap, r.cell), TRUE))
    ELSE None

\* what the caller sees of one call: what it was given, what the arguments
\* were worth before and are worth after it, what it returned or raised,
\* which objects the result shares with each argument, how many variables it
\* bound and what the finalized containers are worth after it
Observe(h, vs, prev, op, args, r) ==
    [op |-> op, args |-> args,
     before |-> [i \in 1..Len(args) |-> DeepValue(h, Ref(args[i]))],
     after |-> [i \in 1..Len(args) |-> DeepValue(r.heap, Ref(args[i]))],
     err |-> r.err, cell |-> r.cell,
     result |-> DeepValue(r.heap, r.cell),
     shared |-> [i \in 1..Len(args) |->
                    Reach(r.heap, r.cell) \cap Reach(r.heap, Ref(args[i]))],
     finalized |-> FinalizedIn(r.heap, Bind(vs, op, r)),
     bound |-> Len(Bind(vs, op, r)) - Len(vs),
     valid |-> ResultValid(op, r),
     argsvalid |-> ArgsValid(h, op, args),
     txids |-> ArgsTxid(h, op, args),
     serialized |-> Serialized(op, r),
     prevargs |-> IF prev.op = "none" THEN <<>> ELSE prev.args,
     prevserialized |-> IF prev.op = "none" THEN None ELSE prev.serialized,
     prevop |-> prev.op,
     preverr |-> IF prev.op = "none" THEN "" ELSE prev.err,
     prevcell |-> IF prev.op = "none" THEN Val(None) ELSE prev.cell]

Outcome(h, vs, prev, op, args, r) ==
    [heap |-> r.heap, roots |-> Bind(vs, op, r), last |-> Observe(h, vs, prev, op, args, r)]

\* one call of a pipeline function
Call(op, args, r) ==
    /\ roots # <<>>
    /\ steps < MaxSteps
    /\ \E o \in {Outcome(heap, roots, last, op, args, r)} :
           /\ heap' = o.heap
           /\ roots' = o.roots
           /\ last' = o.last
    /\ steps' = steps + 1
    /\ UNCHANGED <<crec, cwire, cmap, cdec, cpc, vpsbt, vres>>

Containers == {roots[k].ref : k \in {j \in 1..Len(roots) : roots[j].cls = "Psbt"}}

Transactions == {roots[k].ref : k \in {j \in 1..Len(roots) : roots[j].cls = "Tx"}}

Wrap == \E t \in Transactions : Call("psbt_from_tx", <<t>>, psbt_from_tx(heap, t))

\* combine_psbts on a list of one or of two of the caller's containers
Combine ==
    \E a \in Containers, b \in Containers, n \in {1, 2} :
        /\ n = 1 => a = b
        /\ Call("combine_psbts", IF n = 1 THEN <<a>> ELSE <<a, b>>,
                combine_psbts(heap, IF n = 1 THEN <<a>> ELSE <<a, b>>))

Finalize == \E p \in Containers : Call("finalize_psbt", <<p>>, finalize_psbt(heap, p))

Extract == \E p \in Containers : Call("extract_tx", <<p>>, extract_tx(heap, p))

Next == Construction \/ Wrap \/ Combine \/ Finalize \/ Extract

Spec == Init /\ [][Next]_vars

----------------------------------------------------------------------------
(* Claims about the pipeline *)

\* the entries of a proprietary mapping, keyed by (prefix, sub-key)
ProprietaryEntries(p) ==
    Flatten([i \in 1..Len(p) |->
                [j \in 1..Len(p[i][2]) |-> << <<p[i][1], p[i][2][j][1]>>, p[i][2][j][2] >>]])

\* the union of two mappings in which the later one wins a shared key
Union(ours, theirs) == DictUpdate(ours, theirs)

\* C2: combine, mapping-typed fields. When combine_psbts([A, B]) returns, the
\* input record at every index that A and B both have holds, in partial_sigs,
\* in unknown and in proprietary, exactly the union of the entries A's and
\* B's record held at that index before the call, with B's value under a key
\* both had; a proprietary entry is keyed by (prefix, sub-key).
C2_CombineUnion ==
    last.op = "combine_psbts" /\ Len(last.args) = 2 /\ last.err = "" =>
        \A x \in 1..Len(last.result.inputs) :
            x <= Len(last.before[1].inputs) /\ x <= Len(last.before[2].inputs) =>
                /\ DictEq(last.result.inputs[x].partial_sigs,
                          Union(last.before[1].inputs[x].partial_sigs,
                                last.before[2].inputs[x].partial_sigs))
                /\ DictEq(last.result.inputs[x].unknown,
                          Union(last.before[1].inputs[x].unknown,
                                last.before[2].inputs[x].unknown))
                /\ DictEq(ProprietaryEntries(last.result.inputs[x].proprietary),
                          Union(ProprietaryEntries(last.before[1].inputs[x].proprietary),
                                ProprietaryEntries(last.before[2].inputs[x].proprietary)))

\* the witness stack and the script of a finalized record fin, for the record
\* rec it was made from: the signatures in insertion order, then the encoded
\* witness script, one empty element in front when there are several
\* signatures; the script is the encoded redeem script alone
WitnessPathOk(rec, fin) ==
    /\ Len(fin.final_script_witness)
           = Len(rec.partial_sigs) + 1 + (IF Len(rec.partial_sigs) > 1 THEN 1 ELSE 0)
    /\ Len(rec.partial_sigs) > 1 => fin.final_script_witness[1] = <<>>
    /\ \A i \in 1..Len(rec.partial_sigs) :
           fin.final_script_witness[i + (IF Len(rec.partial_sigs) > 1 THEN 1 ELSE 0)]
               = rec.partial_sigs[i][2]
    /\ FromHex(fin.final_script_witness[Len(fin.final_script_witness)])
           = ScriptEncode(rec.witness_script)
    /\ Len(fin.final_script_sig) = 1
    /\ FromHex(fin.final_script_sig[1]) = ScriptEncode(rec.redeem_script)

\* C3: finalize, witness path. When finalize_psbt returns, every input record
\* that had a witness script (and so at least one partial signature) has
\* final_script_witness = the partial_sigs values in insertion order followed
\* by the serialized witness script, with one empty element prepended exactly
\* when there was more than one signature, and final_script_sig = the single
\* element serialize(redeem_script).
C3_FinalizeWitnessPath ==
    last.op = "finalize_psbt" /\ last.err = "" =>
        \A x \in 1..Len(last.before[1].inputs) :
            last.before[1].inputs[x].witness_script # <<>> =>
                WitnessPathOk(last.before[1].inputs[x], last.result.inputs[x])

\* finalize_psbt returned for a record with a witness script behind a redeem
\* script and two partial signatures
C3_Witness ==
    /\ last.op = "finalize_psbt"
    /\ last.err = ""
    /\ \E x \in 1..Len(last.before[1].inputs) :
           /\ last.before[1].inputs[x].witness_script # <<>>
           /\ last.before[1].inputs[x].redeem_script # <<>>
           /\ Len(last.before[1].inputs[x].partial_sigs) = 2
           /\ Len(last.result.inputs[x].final_script_witness) = 4

\* C4: finalize precondition. finalize_psbt on a container that has an input
\* record with an empty partial_sigs mapping raises the assertion error,
\* returns nothing, binds no container and leaves its argument as it was.
C4_FinalizePrecondition ==
    ( /\ last.op = "finalize_psbt"
      /\ \E x \in 1..Len(last.before[1].inputs) :
             last.before[1].inputs[x].partial_sigs = <<>> ) =>
        /\ last.err = "AssertionError"
        /\ last.cell = Val(None)
        /\ last.bound = 0
        /\ last.after = last.before

\* finalize_psbt failed on a container whose first record has a signature and
\* whose second has none
C4_Witness ==
    /\ last.op = "finalize_psbt"
    /\ Len(last.before[1].inputs) = 2
    /\ last.before[1].inputs[1].partial_sigs # <<>>
    /\ last.before[1].inputs[2].partial_sigs = <<>>
    /\ last.err = "AssertionError"

\* a record carries no partial-signing field
PartialCleared(rec) ==
    /\ rec.partial_sigs = <<>>
    /\ rec.sighash = 0
    /\ rec.redeem_script = <<>>
    /\ rec.witness_script = <<>>
    /\ rec.hd_keypaths = <<>>

\* C8: one-way finalization. After any call, every container that
\* finalize_psbt returned earlier (which combine_psbts returns again when it
\* is the first of the list) still has no partial-signing field in any input
\* record.
C8_OneWay ==
    last.op # "none" =>
        \A k \in DOMAIN last.finalized :
            \A x \in 1..Len(last.finalized[k].inputs) :
                PartialCleared(last.finalized[k].inputs[x])

\* finalize_psbt was called on the container the previous call, finalize_psbt
\* too, had just returned
Refinalized ==
    /\ last.op = "finalize_psbt"
    /\ last.prevop = "finalize_psbt"
    /\ last.preverr = ""
    /\ last.args[1] = last.prevcell[2]

FinalizedCleared ==
    last.op = "finalize_psbt" /\ last.err = "" =>
        \A x \in 1..Len(last.result.inputs) :
            /\ PartialCleared(last.result.inputs[x])
            /\ last.result.inputs[x].por_commitment = None

\* C9 as claimed: finalization is destructive and not repeatable. Every input
\* record of a container finalize_psbt returns has partial_sigs = {},
\* sighash = 0, redeem_script = [], witness_script = [], hd_keypaths = [] and
\* por_commitment = None, and finalize_psbt applied to any container
\* finalize_psbt returned fails on the partial-signature precondition.
C9_NotRepeatable ==
    /\ FinalizedCleared
    /\ Refinalized => last.err = "AssertionError"

\* C9, amended: finalization is destructive (as above), and finalize_psbt
\* applied to a container finalize_psbt has just returned fails on the
\* partial-signature precondition when the container has at least one input
\* record.
C9_Destructive ==
    /\ FinalizedCleared
    /\ Refinalized /\ Len(last.before[1].inputs) >= 1 => last.err = "AssertionError"

\* the second finalize_psbt failed on a finalized container with an input
C9_Witness ==
    /\ Refinalized
    /\ Len(last.before[1].inputs) >= 1
    /\ last.before[1].inputs[1].final_script_sig # <<>>
    /\ last.err = "AssertionError"

\* C10: purity. After a call of psbt_from_tx, combine_psbts, finalize_psbt or
\* extract_tx, returned or failed, every argument is worth what it was worth
\* before the call, and what was returned shares no object with an argument.
C10_Purity ==
    last.op # "none" =>
        /\ last.after = last.before
        /\ last.err = "" => \A i \in 1..Len(last.args) : last.shared[i] = {}

\* the containers of the list all wrap a transaction with one transaction id
SameTxid ==
    \A i \in 1..Len(last.txids) : last.txids[i] # None /\ last.txids[i] = last.txids[1]

\* C11: combine is defined on every non-empty sequence. combine_psbts on a
\* list of containers that all wrap the same transaction id returns a
\* container, unless two of them disagree on a scalar field; on a list of
\* exactly one container A it returns a container equal to A.
C11_CombineTotal ==
    last.op = "combine_psbts" /\ SameTxid =>
        /\ last.err \in {"", "AssertionError"}
        /\ Len(last.args) = 1 => last.err = "" /\ last.result = last.before[1]

\* C12: the combine result is validated. Every container combine_psbts
\* returns passes Psbt.assert_valid, the script-hash checks included; in
\* particular combine_psbts on individually valid containers never returns a
\* container the validator rejects.
C12_CombineValidated ==
    last.op = "combine_psbts" /\ last.err = "" =>
        /\ last.valid = ""
        /\ (\A i \in 1..Len(last.args) : last.argsvalid[i] = "") => last.valid = ""

\* C13: combine rejects different transactions. When a container of the list
\* wraps a transaction whose txid is not that of the first (or whose txid
\* cannot be read), combine_psbts raises, returns nothing and binds no
\* container; two readable txids that differ raise the assertion error.
C13_CombineTxid ==
    ( /\ last.op = "combine_psbts"
      /\ \E i \in 1..Len(last.txids) : last.txids[i] # last.txids[1] ) =>
        /\ last.err # ""
        /\ last.cell = Val(None)
        /\ last.bound = 0
        /\ (\A i \in 1..Len(last.txids) : last.txids[i] # None) =>
               last.err = "AssertionError"

\* combine_psbts was given two containers of two valid transactions, the
\* first with more input records than the second, and raised the assertion
\* error
C13_Witness ==
    /\ last.op = "combine_psbts"
    /\ Len(last.args) = 2
    /\ last.txids[1] # None
    /\ last.txids[2] # None
    /\ last.txids[1] # last.txids[2]
    /\ Len(last.before[1].inputs) > Len(last.before[2].inputs)
    /\ last.err = "AssertionError"

\* the scalar fields of an input record and their defaults (lines 30-39)
ScalarFields == {"non_witness_utxo", "witness_utxo", "sighash", "por_commitment"}

ScalarDefault(f) == IF f = "sighash" THEN 0 ELSE None

\* two records both set field f, to different values
ScalarConflict(a, b, f) ==
    /\ a[f] # ScalarDefault(f)
    /\ b[f] # ScalarDefault(f)
    /\ a[f] # b[f]

\* the positions both containers of a two-container combine have a record at
CommonInputs ==
    {x \in 1..Len(last.before[1].inputs) : x <= Len(last.before[2].inputs)}

\* C14: combine, scalar fields. For combine_psbts([A, B]) on containers of one
\* transaction: when at some index A's and B's record both set a scalar
\* field (non_witness_utxo, witness_utxo, sighash, por_commitment) to a
\* non-default value and the values differ, the call fails; otherwise the
\* combined record holds, in every scalar field, the non-default value of
\* the two, or the default when neither sets it.
C14_CombineScalar ==
    last.op = "combine_psbts" /\ Len(last.args) = 2 /\ SameTxid =>
        IF \E x \in CommonInputs, f \in ScalarFields :
               ScalarConflict(last.before[1].inputs[x], last.before[2].inputs[x], f)
        THEN last.err # ""
        ELSE last.err = "" =>
                 \A x \in CommonInputs, f \in ScalarFields :
                     last.result.inputs[x][f] =
                         IF last.before[1].inputs[x][f] # ScalarDefault(f)
                         THEN last.before[1].inputs[x][f]
                         ELSE last.before[2].inputs[x][f]

\* the sequence-typed fields of an input record (lines 34-38)
SequenceFields ==
    {"redeem_script", "witness_script", "hd_keypaths", "final_script_sig",
     "final_script_witness"}

\* acc, then each element of more that is not yet in what was built
RECURSIVE FirstSeenUnion(_, _)
FirstSeenUnion(acc, more) ==
    IF more = <<>> THEN acc
    ELSE FirstSeenUnion(IF \E i \in 1..Len(acc) : acc[i] = Head(more) THEN acc
                        ELSE Append(acc, Head(more)),
                        Tail(more))

\* C15: combine, sequence-typed fields. When combine_psbts([A, B]) returns,
\* every sequence-typed field of the record at an index both have holds the
\* elements of A's record, then each element of B's record that is not yet
\* present, in B's order: no element that duplicates an earlier one is added.
C15_CombineSequence ==
    last.op = "combine_psbts" /\ Len(last.args) = 2 /\ last.err = "" =>
        \A x \in CommonInputs, f \in SequenceFields :
            last.result.inputs[x][f] =
                FirstSeenUnion(last.before[1].inputs[x][f], last.before[2].inputs[x][f])

\* C16: combine idempotence. combine_psbts([A, A]), on one container twice
\* or on two equal containers, of a transaction whose txid can be read,
\* returns a container equal to A field for field, and leaves both arguments
\* equal to A.
C16_CombineIdempotent ==
    ( /\ last.op = "combine_psbts"
      /\ Len(last.args) = 2
      /\ last.before[1] = last.before[2]
      /\ last.txids[1] # None ) =>
        /\ last.err = ""
        /\ last.result = last.before[1]
        /\ last.after = last.before

\* combine_psbts returned for two equal containers that are two objects, are
\* valid and hold signatures, scripts, proprietary and unknown entries
C16_Witness ==
    /\ last.op = "combine_psbts"
    /\ Len(last.args) = 2
    /\ last.args[1] # last.args[2]
    /\ last.before[1] = last.before[2]
    /\ last.argsvalid[1] = ""
    /\ last.before[1].inputs[1].partial_sigs # <<>>
    /\ last.before[1].inputs[1].witness_script # <<>>
    /\ last.before[1].inputs[1].proprietary # <<>>
    /\ last.before[1].inputs[1].unknown # <<>>
    /\ last.err = ""
    /\ last.result = last.before[1]

\* the script elements of the legacy path: the signatures in insertion order,
\* then the serialized redeem script, hex digits in upper case
LegacyElements(b) ==
    [k \in 1..Len(b.partial_sigs) |-> Upper(b.partial_sigs[k][2])]
        \o << Upper(Hex(ScriptEncode(b.redeem_script))) >>

ZeroPlaceholder == <<"int", 0>>

\* C17: finalize, legacy path. For every input record with an empty
\* witness_script (and, finalize_psbt having returned, at least one partial
\* signature), final_script_sig of the result is the partial_sigs values in
\* insertion order followed by the serialized redeem script, with the zero
\* placeholder in front exactly when there is more than one signature, and
\* final_script_witness is left as it was: empty for a record that came
\* without one.
C17_FinalizeLegacy ==
    last.op = "finalize_psbt" /\ last.err = "" =>
        \A i \in 1..Len(last.before[1].inputs) :
            LET b == last.before[1].inputs[i]
                r == last.result.inputs[i]
            IN  b.witness_script = <<>> =>
                    /\ Len(b.partial_sigs) >= 1
                    /\ r.final_script_sig =
                           (IF Len(b.partial_sigs) > 1 THEN <<ZeroPlaceholder>> ELSE <<>>)
                               \o LegacyElements(b)
                    /\ r.final_script_witness = b.final_script_witness
                    /\ b.final_script_witness = <<>> => r.final_script_witness = <<>>

\* finalize_psbt returned for a record without witness script that has two
\* signatures and a redeem script
C17_Witness ==
    /\ last.op = "finalize_psbt"
    /\ last.err = ""
    /\ Len(last.before[1].inputs) = 1
    /\ last.before[1].inputs[1].witness_script = <<>>
    /\ Len(last.before[1].inputs[1].partial_sigs) = 2
    /\ last.before[1].inputs[1].redeem_script # <<>>
    /\ Len(last.result.inputs[1].final_script_sig) = 4
    /\ last.result.inputs[1].final_script_sig[1] = ZeroPlaceholder
    /\ last.result.inputs[1].final_script_witness = <<>>

\* C18: extract. Whenever extract_tx returns, input i of the returned
\* transaction has the record's final_script_sig as scriptSig and, when the
\* record's final_script_witness is not empty, that as witness; otherwise the
\* witness is the skeleton's, which is empty in a valid container. Every other
\* field of the transaction equals the skeleton's. A second extract_tx on the
\* same container returns a transaction that serializes to the same bytes.
C18_Extract ==
    last.op = "extract_tx" /\ last.err = "" =>
        LET b == last.before[1]
            t == last.result
        IN  /\ Len(t.vin) = Len(b.tx.vin)
            /\ \A i \in 1..Len(t.vin) :
                   /\ t.vin[i].scriptSig = b.inputs[i].final_script_sig
                   /\ t.vin[i].txinwitness =
                          IF b.inputs[i].final_script_witness # <<>>
                          THEN b.inputs[i].final_script_witness
                          ELSE b.tx.vin[i].txinwitness
                   /\ ( /\ b.inputs[i].final_script_witness = <<>>
                        /\ last.argsvalid[1] = "" ) => t.vin[i].txinwitness = <<>>
                   /\ t.vin[i].prevout = b.tx.vin[i].prevout
                   /\ t.vin[i].nSequence = b.tx.vin[i].nSequence
            /\ t.vout = b.tx.vout
            /\ t.nLockTime = b.tx.nLockTime
            /\ t.nVersion = b.tx.nVersion
            /\ ( /\ last.prevop = "extract_tx"
                 /\ last.prevargs = last.args
                 /\ last.preverr = "" ) => last.serialized = last.prevserialized

\* extract_tx returned twice for one finalized container whose record has a
\* final script and a final witness, and the transaction serializes
C18_Witness ==
    /\ last.op = "extract_tx"
    /\ last.err = ""
    /\ last.prevop = "extract_tx"
    /\ last.prevargs = last.args
    /\ last.preverr = ""
    /\ last.serialized # None
    /\ last.serialized = last.prevserialized
    /\ Len(last.result.vin) = 1
    /\ last.before[1].inputs[1].final_script_sig # <<>>
    /\ last.before[1].inputs[1].final_script_witness # <<>>
    /\ last.result.vin[1].scriptSig = last.before[1].inputs[1].final_script_sig
    /\ last.result.vin[1].txinwitness = last.before[1].inputs[1].final_script_witness

\* the transaction without the unlocking data of its inputs
Stripped(t) ==
    [t EXCEPT !.vin = [i \in 1..Len(t.vin) |->
                          [t.vin[i] EXCEPT !.scriptSig = <<>>, !.txinwitness = <<>>]]]

\* C19: wrap. psbt_from_tx(tx) returns for every transaction a container
\* whose skeleton is tx with every input's scriptSig and witness emptied, with
\* one all-default input record for each input and one empty output record for
\* each output of the skeleton, and the container passes Psbt.assert_valid.
C19_Wrap ==
    last.op = "psbt_from_tx" =>
        /\ last.err = ""
        /\ last.result.tx = Stripped(last.before[1])
        /\ last.result.inputs =
               [i \in 1..Len(last.before[1].vin) |-> PsbtInputDefault]
        /\ last.result.outputs =
               [i \in 1..Len(last.before[1].vout) |-> PsbtOutputDefault]
        /\ last.valid = ""

\* psbt_from_tx returned for a transaction whose input carries a scriptSig
C19_Witness ==
    /\ last.op = "psbt_from_tx"
    /\ last.err = ""
    /\ Len(last.before[1].vin) >= 1
    /\ Len(last.before[1].vout) >= 1
    /\ last.before[1].vin[1].scriptSig # <<>>
    /\ last.result.tx.vin[1].scriptSig = <<>>
    /\ Len(last.result.inputs) = Len(last.before[1].vin)
    /\ last.valid = ""

----------------------------------------------------------------------------
(* deserialize_map on hand-crafted map byte strings: entries framed as     *)
(* (length, key, length, value), then either the terminator and a suffix,   *)
(* or nothing, with the last bytes of the buffer cut off.                   *)

MaxEntries == 3

MaxCut == 2

\* keys of one and of two bytes; two of them share the type byte
CraftedKeys == {<<1>>, <<2>>, <<2, 5>>}

CraftedValues == {<<>>, <<7>>, <<8>>}

CraftedEntries == UNION {SeqsOfLen(CraftedKeys \X CraftedValues, n) : n \in 0..MaxEntries}

\* what follows the terminator: nothing, a second terminator, the map that
\* follows in a container, a byte that starts no entry
CraftedSuffixes == {<<>>, <<0>>, KeyValue(<<1>>, <<7>>) \o <<0>>, <<255>>}

\* how the buffers end: "terminated" by 0x00 and a suffix, or "truncated"
\* after the entries less the last cut bytes
CraftedEnds ==
    {[end |-> "terminated", cut |-> 0, suffix |-> r] : r \in CraftedSuffixes}
        \cup {[end |-> "truncated", cut |-> c, suffix |-> <<>>] : c \in 0..MaxCut}

CraftedFrames(entries) ==
    Flatten([i \in 1..Len(entries) |-> KeyValue(entries[i][1], entries[i][2])])

\* the bytes of the entries and of what ends them
CraftedBytes(entries, e) ==
    IF e.end = "terminated" THEN CraftedFrames(entries) \o <<0>> \o e.suffix
    ELSE Take(CraftedFrames(entries), Len(CraftedFrames(entries)) - e.cut)

InitMap ==
    /\ PipelineIdle
    /\ ValidatorIdle
    /\ \E entries \in CraftedEntries, e \in CraftedEnds :
           /\ crec = [cls |-> "map", entries |-> entries, end |-> e.end,
                      cut |-> e.cut, suffix |-> e.suffix]
           /\ cwire = Ok(CraftedBytes(entries, e))
    /\ cmap = NoResult
    /\ cdec = NoResult
    /\ cpc = "crafted"

\* deserialize_map(data) on the crafted bytes
ParseCrafted ==
    /\ cpc = "crafted"
    /\ cmap' = deserialize_map(cwire.val)
    /\ cpc' = "mapped"
    /\ UNCHANGED <<heap, roots, last, steps, crec, cwire, cdec, vpsbt, vres>>

NextMap == ParseCrafted

SpecMap == InitMap /\ [][NextMap]_vars

\* the same key bytes occur twice among the entries
RepeatedKey(entries) ==
    \E i, j \in 1..Len(entries) : i < j /\ entries[i][1] = entries[j][1]

\* C20: duplicate-key rejection. For every map byte string in which the same
\* key bytes occur twice, whole, before the terminator or the end of the
\* buffer, with equal values or not, deserialize_map fails with the duplicate-key error, and so returns no map.
C20_DuplicateKey ==
    ( /\ cpc = "mapped"
      /\ crec.cls = "map"
      /\ crec.cut = 0
      /\ RepeatedKey(crec.entries) ) =>
        /\ ~IsOk(cmap)
        /\ cmap.err = "AssertionError: duplicate keys"

\* deserialize_map ran on a terminated map that repeats one entry whole and
\* holds another key with the same first byte
C20_Witness ==
    /\ cpc = "mapped"
    /\ crec.cls = "map"
    /\ crec.end = "terminated"
    /\ \E i, j \in 1..Len(crec.entries) : i < j /\ crec.entries[i] = crec.entries[j]
    /\ \E i, j \in 1..Len(crec.entries) :
           /\ crec.entries[i][1] # crec.entries[j][1]
           /\ crec.entries[i][1][1] = crec.entries[j][1][1]
    /\ cmap.err = "AssertionError: duplicate keys"

\* C21: map framing. For a buffer made of well-formed pairs with distinct
\* non-empty keys, the terminator and a suffix, deserialize_map returns
\* exactly those pairs in their order and the suffix unchanged; for a buffer
\* that ends before a terminator, after whole pairs or inside a key, a length
\* or a value, it fails and returns no map.
C21_MapFraming ==
    (cpc = "mapped" /\ crec.cls = "map") =>
        /\ (crec.end = "terminated" /\ ~RepeatedKey(crec.entries)) =>
               /\ IsOk(cmap)
               /\ cmap.val = crec.entries
               /\ cmap.rest = crec.suffix
        /\ crec.end = "truncated" => ~IsOk(cmap)

\* deserialize_map ran on three pairs with distinct keys, the terminator and
\* a suffix that holds a further pair
C21_Witness ==
    /\ cpc = "mapped"
    /\ crec.cls = "map"
    /\ crec.end = "terminated"
    /\ Len(crec.entries) = 3
    /\ ~RepeatedKey(crec.entries)
    /\ Len(crec.suffix) > 1
    /\ IsOk(cmap)
    /\ cmap.val = crec.entries
    /\ cmap.rest = crec.suffix

----------------------------------------------------------------------------
(* psbt.py: PsbtOutput and the global map of Psbt *)

\* one iteration of the loop of PsbtOutput.decode
PsbtOutputDecodeEntry(acc, key, value) ==
    CASE key[1] = 0 ->
           AssertKeyLen(key, 1, Ok([acc EXCEPT !.redeem_script = ScriptDecode(value)]))
      [] key[1] = 1 ->
           AssertKeyLen(key, 1, Ok([acc EXCEPT !.witness_script = ScriptDecode(value)]))
      [] key[1] = 2 ->
           AssertKeyLen(key, 33 + 1,
               IF Len(value) % 4 # 0 THEN Err("AssertionError")
               ELSE Ok([acc EXCEPT !.hd_keypaths =
                           Append(@, [xpub |-> Hex(Tail(key)),
                                      fingerprint |-> Hex(Take(value, 4)),
                                      derivation_path |-> Hex(Drop(value, 4))])]))
      [] key[1] = 252 ->
           Then(DecodeProprietary(acc.proprietary, key, value), LAMBDA p, rest :
               Ok([acc EXCEPT !.proprietary = p]))
      [] OTHER ->
           Ok([acc EXCEPT !.unknown = DictSet(@, Hex(key), Hex(value))])

RECURSIVE PsbtOutputDecodeLoop(_, _)
PsbtOutputDecodeLoop(acc, items) ==
    IF items = <<>> THEN Ok(acc)
    ELSE Then(PsbtOutputDecodeEntry(acc, items[1][1], items[1][2]), LAMBDA next, rest :
             PsbtOutputDecodeLoop(next, Tail(items)))

\* PsbtOutput.decode(output_map); PsbtOutput.assert_valid checks nothing
PsbtOutputDecode(output_map) == PsbtOutputDecodeLoop(PsbtOutputDefault, output_map)

\* PsbtOutput.serialize
PsbtOutputSerialize(r) ==
    Ok((IF r.redeem_script # <<>> THEN <<1, 0>> \o ScriptSerialize(r.redeem_script)
        ELSE <<>>)
       \o (IF r.witness_script # <<>> THEN <<1, 1>> \o ScriptSerialize(r.witness_script)
           ELSE <<>>)
       \o SerializeHdKeypaths(<<34, 2>>, r.hd_keypaths)
       \o SerializeProprietary(r.proprietary)
       \o SerializeUnknown(r.unknown))

\* the locals of Psbt.deserialize before its loop over the global map; tx
\* is not bound yet
GlobalDefault ==
    [tx |-> None, version |-> 0, hd_keypaths |-> <<>>, proprietary |-> <<>>,
     unknown |-> <<>>]

\* one iteration of the loop of Psbt.deserialize over the global map
GlobalDecodeEntry(acc, key, value) ==
    CASE key[1] = 0 ->
           AssertKeyLen(key, 1, Then(TxDeserialize(value), LAMBDA tx, rest :
               Ok([acc EXCEPT !.tx = Some(tx)])))
      [] key[1] = 1 ->
           AssertKeyLen(key, 78 + 1,
               IF Len(value) % 4 # 0 THEN Err("AssertionError")
               ELSE Ok([acc EXCEPT !.hd_keypaths =
                           Append(@, [xpub |-> Hex(Tail(key)),
                                      fingerprint |-> Hex(Take(value, 4)),
                                      derivation_path |-> Hex(Drop(value, 4))])]))
      [] key[1] = 251 ->
           IF Len(value) # 4 THEN Err("AssertionError")
           ELSE Ok([acc EXCEPT !.version = FromLE(value)])
      [] key[1] = 252 ->
           Then(DecodeProprietary(acc.proprietary, key, value), LAMBDA p, rest :
               Ok([acc EXCEPT !.proprietary = p]))
      [] OTHER ->
           Ok([acc EXCEPT !.unknown = DictSet(@, Hex(key), Hex(value))])

RECURSIVE GlobalDecodeLoop(_, _)
GlobalDecodeLoop(acc, items) ==
    IF items = <<>> THEN Ok(acc)
    ELSE Then(GlobalDecodeEntry(acc, items[1][1], items[1][2]), LAMBDA next, rest :
             GlobalDecodeLoop(next, Tail(items)))

\* the global part of Psbt.deserialize, up to input_len = len(tx.vin), which
\* reads a name no iteration may have bound
GlobalDecode(global_map) ==
    Then(GlobalDecodeLoop(GlobalDefault, global_map), LAMBDA g, rest :
        IF g.tx = None THEN Err("UnboundLocalError") ELSE Ok(g))

\* the global map Psbt.serialize writes between the magic bytes and the
\* terminator
GlobalSerialize(g) ==
    Then(TxAssertValid(g.tx[1]), LAMBDA checked, rest :
        Ok(<<1, 0>> \o VarintEncode(Len(TxSerialize(g.tx[1], TRUE)))
               \o TxSerialize(g.tx[1], TRUE)
           \o SerializeHdKeypaths(<<79, 1>>, g.hd_keypaths)
           \o (IF g.version # 0 THEN <<1, 251, 4>> \o ToLE(g.version, 4) ELSE <<>>)
           \o SerializeProprietary(g.proprietary)
           \o SerializeUnknown(g.unknown)))

----------------------------------------------------------------------------
(* The record decoders on hand-crafted maps: one or two entries with        *)
(* different keys, as deserialize_map returns them, given to the decoder of  *)
(* a record kind; what it returns is serialized again.                      *)

RecordKinds == {"PsbtInput", "PsbtIn", "PsbtOutput", "Global"}

\* the first key bytes a record kind's decoder has a branch for
KnownTags(cls) ==
    CASE cls = "PsbtInput" -> (0..9) \cup {252}
      [] cls = "PsbtIn" -> 0..8
      [] cls = "PsbtOutput" -> {0, 1, 2, 252}
      [] cls = "Global" -> {0, 1, 251, 252}

\* what follows the tag of a partial-signature key: valid public keys of 33
\* and of 65 bytes, and the same one byte short, one byte long, or missing
CraftedPubkeys ==
    {<<>>, Take(PubKeyA, 32), PubKeyA, PubKeyA \o <<17>>,
     Take(PubKeyU, 64), PubKeyU, PubKeyU \o <<51>>}

PartialSigItems == {<< <<2>> \o pk, SigA >> : pk \in CraftedPubkeys}

\* keys under tags no record kind knows
UnknownItems == {<<10>>, <<10, 1, 2>>, <<240>>} \X {<<>>, <<7, 8>>}

\* proprietary keys: the tag alone, with an owner, with an owner and a
\* name, and with the first bytes of a three-byte owner prefix
ProprietaryItems == {<<252>>, <<252, 1>>, <<252, 1, 9>>, <<252, 253, 1>>} \X {<<7>>}

\* entries for tags some record kinds know and others do not
OtherItems ==
    {<< <<3>>, <<1, 0, 0, 0>> >>, << <<3>>, <<1>> >>, << <<7>>, <<2, 48, 10>> >>,
     << <<9>>, <<7, 7>> >>, << <<251>>, <<0, 0, 0, 0>> >>}

CraftedItems == PartialSigItems \cup UnknownItems \cup ProprietaryItems \cup OtherItems

\* maps of one or of two entries with different keys
CraftedMaps ==
    {<<a>> : a \in CraftedItems}
        \cup {<<p[1], p[2]>> : p \in {q \in CraftedItems \X CraftedItems : q[1][1] # q[2][1]}}

\* the unsigned-transaction entry every global map must hold
TxItem == << <<0>>, TxSerialize(UnsignedTx, TRUE) >>

\* the maps given to the decoder of a record kind
MapsFor(cls) ==
    IF cls = "Global"
    THEN {<<TxItem>>} \cup {<<TxItem>> \o m : m \in CraftedMaps} \cup CraftedMaps
    ELSE CraftedMaps

InitDecode ==
    /\ PipelineIdle
    /\ ValidatorIdle
    /\ \E cls \in RecordKinds : \E m \in MapsFor(cls) :
           /\ crec = [cls |-> cls, map |-> m]
           /\ cmap = Ok(m)
    /\ cwire = NoResult
    /\ cdec = NoResult
    /\ cpc = "entries"

\* PsbtInput.decode / PsbtIn.deserialize / PsbtOutput.decode / the global
\* loop of Psbt.deserialize on the crafted map
DecodeCrafted ==
    /\ cpc = "entries"
    /\ cdec' = CASE crec.cls = "PsbtInput" -> PsbtInputDecode(cmap.val)
                 [] crec.cls = "PsbtIn" -> PsbtInDeserialize(cmap.val, TRUE)
                 [] crec.cls = "PsbtOutput" -> PsbtOutputDecode(cmap.val)
                 [] crec.cls = "Global" -> GlobalDecode(cmap.val)
    /\ cpc' = "entries_decoded"
    /\ UNCHANGED <<heap, roots, last, steps, crec, cwire, cmap, vpsbt, vres>>

\* serialize() of the record the decoder returned
SerializeDecoded ==
    /\ cpc = "entries_decoded"
    /\ IsOk(cdec)
    /\ cwire' = CASE crec.cls = "PsbtInput" -> PsbtInputSerialize(cdec.val)
                  [] crec.cls = "PsbtIn" -> PsbtInSerialize(cdec.val, TRUE)
                  [] crec.cls = "PsbtOutput" -> PsbtOutputSerialize(cdec.val)
                  [] crec.cls = "Global" -> GlobalSerialize(cdec.val)
    /\ cpc' = "entries_serialized"
    /\ UNCHANGED <<heap, roots, last, steps, crec, cmap, cdec, vpsbt, vres>>

NextDecode == DecodeCrafted \/ SerializeDecoded

SpecDecode == InitDecode /\ [][NextDecode]_vars

\* the decoder ran on the crafted map
Decoded == cpc \in {"entries_decoded", "entries_serialized"}

\* the partial-signature entries of the crafted map
PartialSigEntries == {i \in 1..Len(crec.map) : crec.map[i][1][1] = 2}

\* every entry of the crafted map is a partial-signature entry
OnlyPartialSigs == PartialSigEntries = 1..Len(crec.map)

\* the public keys of the decoded partial_sigs, as bytes
DecodedPubkeys ==
    IF crec.cls = "PsbtInput"
    THEN {FromHex(cdec.val.partial_sigs[i][1]) : i \in 1..Len(cdec.val.partial_sigs)}
    ELSE {cdec.val.partial_sigs[i][1] : i \in 1..Len(cdec.val.partial_sigs)}

\* C22: partial-signature key shape. PsbtInput.decode and PsbtIn.deserialize
\* accept a map of partial-signature entries exactly when every key has 33 or
\* 65 bytes after the tag 0x02, and then store those bytes as the public keys.
C22_PartialSigKey ==
    ( /\ Decoded
      /\ crec.cls \in {"PsbtInput", "PsbtIn"}
      /\ OnlyPartialSigs ) =>
        /\ IsOk(cdec) <=> \A i \in PartialSigEntries : Len(crec.map[i][1]) - 1 \in {33, 65}
        /\ IsOk(cdec) =>
               DecodedPubkeys = {Tail(crec.map[i][1]) : i \in PartialSigEntries}

\* the entries of the crafted map under a tag the record kind does not know
UnknownEntries == {i \in 1..Len(crec.map) : crec.map[i][1][1] \notin KnownTags(crec.cls)}

\* the proprietary entries of the crafted map, for the kinds that know the tag
ProprietaryEntries252 ==
    {i \in 1..Len(crec.map) : crec.map[i][1][1] = 252 /\ 252 \in KnownTags(crec.cls)}

\* the entry of the unsigned transaction, which a global map cannot lack
TxEntries == {i \in 1..Len(crec.map) : crec.cls = "Global" /\ crec.map[i] = TxItem}

\* the decoded unknown mapping as (key bytes, value bytes) pairs
DecodedUnknown ==
    IF crec.cls = "PsbtIn"
    THEN {cdec.val.unknown[i] : i \in 1..Len(cdec.val.unknown)}
    ELSE {<<FromHex(cdec.val.unknown[i][1]), FromHex(cdec.val.unknown[i][2])>> :
             i \in 1..Len(cdec.val.unknown)}

\* the entries of the map that serialize() wrote
Reemitted ==
    LET m == deserialize_map(cwire.val \o <<0>>)
    IN  IF IsOk(m) THEN {m.val[i] : i \in 1..Len(m.val)} ELSE {}

\* C23: forward compatibility. In the global, input and output decoders a
\* map whose entries (the unsigned transaction of a global map apart) all have
\* a first key byte the record kind does not know decodes without error, each
\* entry is in the unknown mapping under its full key with its value, and
\* serialization writes exactly that key and value again. A map whose entries
\* are proprietary (tag 0xFC) decodes without error whatever follows the tag.
C23_ForwardCompatible ==
    /\ ( /\ Decoded
         /\ TxEntries # {} \/ crec.cls # "Global"
         /\ UnknownEntries \cup TxEntries = 1..Len(crec.map) ) =>
           /\ IsOk(cdec)
           /\ DecodedUnknown = {crec.map[i] : i \in UnknownEntries}
           /\ cpc = "entries_serialized" =>
                  /\ IsOk(cwire)
                  /\ {crec.map[i] : i \in UnknownEntries} \subseteq Reemitted
    /\ ( /\ Decoded
         /\ TxEntries # {} \/ crec.cls # "Global"
         /\ ProprietaryEntries252 # {}
         /\ ProprietaryEntries252 \cup TxEntries = 1..Len(crec.map) ) => IsOk(cdec)

\* the library's typed errors
TypedErrors == {"BTClibValueError", "BTClibTypeError"}

\* C25: typed errors. Every failure of a record decoder on a crafted map
\* reaches the caller as one of the library's typed errors.
C25_TypedErrors ==
    (Decoded /\ ~IsOk(cdec)) => cdec.err \in TypedErrors

----------------------------------------------------------------------------
(* Claims about the serialization of input records *)

\* n times the tag t
Repeat(t, n) == [i \in 1..n |-> t]

\* the tags of the entries an input record must serialize to: one entry (one
\* for each element of a mapping or list of entries) for every field that is
\* not empty and not the default, in the order of the tags
ExpectedTags(cls, r) ==
    (IF r.non_witness_utxo # None THEN <<0>> ELSE <<>>)
        \o (IF r.witness_utxo # None THEN <<1>> ELSE <<>>)
        \o Repeat(2, Len(r.partial_sigs))
        \o (IF cls = "PsbtInput"
            THEN (IF r.sighash # 0 THEN <<3>> ELSE <<>>)
            ELSE (IF r.sighash_type # None THEN <<3>> ELSE <<>>))
        \o (IF r.redeem_script # <<>> THEN <<4>> ELSE <<>>)
        \o (IF r.witness_script # <<>> THEN <<5>> ELSE <<>>)
        \o Repeat(6, Len(r.hd_keypaths))
        \o (IF r.final_script_sig # <<>> THEN <<7>> ELSE <<>>)
        \o (IF r.final_script_witness # <<>> THEN <<8>> ELSE <<>>)
        \o (IF cls = "PsbtInput"
            THEN (IF r.por_commitment # None THEN <<9>> ELSE <<>>)
                 \o Flatten([i \in 1..Len(r.proprietary) |->
                                Repeat(252, Len(r.proprietary[i][2]))])
                 \o [i \in 1..Len(r.unknown) |-> FromHex(r.unknown[i][1])[1]]
            ELSE [i \in 1..Len(r.unknown) |-> r.unknown[i][1][1]])

\* the tags of the entries of a parsed map
TagsOf(m) == [i \in 1..Len(m) |-> m[i][1][1]]

\* C24: serialization presence rule. The serialization of an input record
\* holds the entry of a field exactly when the field is not empty and not the
\* default, whatever the other fields hold, in the order of the tags; so a
\* record with partial signatures (or sighash type, scripts, key paths) and
\* a final script or final witness serializes all of them.
C24_PresenceRule ==
    cpc \in {"mapped", "decoded"} =>
        /\ IsOk(cmap)
        /\ TagsOf(cmap.val) = ExpectedTags(crec.cls, crec.rec)

----------------------------------------------------------------------------
(* Tx.deserialize and Tx.serialize on hand-crafted byte strings: the legacy  *)
(* and the segwit serialization of a transaction, and the segwit layout with *)
(* the 00 01 marker written whether or not an input has a witness; whole,    *)
(* followed by one more byte, or with the last bytes cut off.                *)

\* the first input of the crafted transactions
CraftedTxIns ==
    {[SkeletonIn(0) EXCEPT !.scriptSig = ss, !.txinwitness = w] :
        ss \in {<<>>, << Upper(Hex(SigA)) >>},
        w \in {<<>>, << Hex(SigA) >>, << <<>>, Hex(SigA) >>}}

CraftedTxs ==
    {[Skeleton(vin) EXCEPT !.nLockTime = lt] :
        vin \in {<<i>> : i \in CraftedTxIns} \cup {<<i, SkeletonIn(1)>> : i \in CraftedTxIns},
        lt \in {0, 258}}

\* the segwit layout of a transaction, marker and witness stacks included
\* even when every stack is empty
MarkedBytes(tx) ==
    ToLE(tx.nVersion, 4) \o <<0, 1>>
        \o VarintEncode(Len(tx.vin))
        \o Flatten([i \in 1..Len(tx.vin) |-> TxInSerialize(tx.vin[i])])
        \o VarintEncode(Len(tx.vout))
        \o Flatten([i \in 1..Len(tx.vout) |-> TxOutSerialize(tx.vout[i])])
        \o Flatten([i \in 1..Len(tx.vin) |-> WitnessSerialize(tx.vin[i].txinwitness)])
        \o ToLE(tx.nLockTime, 4)

TxForms == {"legacy", "segwit", "marked"}

\* how the byte strings end
TxEnds == {[extra |-> x, cut |-> 0] : x \in {<<>>, <<0>>}}
              \cup {[extra |-> <<>>, cut |-> c] : c \in 1..MaxCut}

TxBytes(tx, form, e) ==
    LET whole == CASE form = "legacy" -> TxSerialize(tx, FALSE)
                   [] form = "segwit" -> TxSerialize(tx, TRUE)
                   [] form = "marked" -> MarkedBytes(tx)
    IN  Take(whole, Len(whole) - e.cut) \o e.extra

InitTx ==
    /\ PipelineIdle
    /\ ValidatorIdle
    /\ \E tx \in CraftedTxs, form \in TxForms, e \in TxEnds :
           crec = [cls |-> "Tx", form |-> form, extra |-> e.extra, cut |-> e.cut,
                   data |-> TxBytes(tx, form, e)]
    /\ cwire = NoResult
    /\ cmap = NoResult
    /\ cdec = NoResult
    /\ cpc = "bytes"

\* Tx.deserialize(data)
TxParse ==
    /\ cpc = "bytes"
    /\ cdec' = TxDeserialize(crec.data)
    /\ cpc' = "parsed"
    /\ UNCHANGED <<heap, roots, last, steps, crec, cwire, cmap, vpsbt, vres>>

\* tx.serialize() of the transaction Tx.deserialize returned
TxReserialize ==
    /\ cpc = "parsed"
    /\ IsOk(cdec)
    /\ cwire' = Then(TxAssertValid(cdec.val), LAMBDA checked, rest :
                     Ok(TxSerialize(cdec.val, TRUE)))
    /\ cpc' = "reserialized"
    /\ UNCHANGED <<heap, roots, last, steps, crec, cmap, cdec, vpsbt, vres>>

NextTx == TxParse \/ TxReserialize

SpecTx == InitTx /\ [][NextTx]_vars

\* the crafted bytes carry the 00 01 marker after the version
HasMarker(data) == Take(Drop(data, 4), 2) = <<0, 1>>

\* C26: transaction byte round trip. For every byte string Tx.deserialize
\* accepts, legacy or with the 00 01 marker, serializing the transaction it
\* returned gives the same bytes; and a transaction parsed from bytes without
\* the marker has an empty witness on every input.
C26_TxRoundTrip ==
    /\ cpc = "reserialized" => IsOk(cwire) /\ cwire.val = crec.data
    /\ ( /\ cpc \in {"parsed", "reserialized"}
         /\ IsOk(cdec)
         /\ ~HasMarker(crec.data) ) =>
           \A i \in 1..Len(cdec.val.vin) : cdec.val.vin[i].txinwitness = <<>>

----------------------------------------------------------------------------
(* amount.py: conversion between BTC amounts and satoshi amounts.            *)
(* A Python int or decimal.Decimal is a record [sign, digits, exp]: its      *)
(* value is (-1)^sign * digits * 10^exp, digits being the decimal digits of  *)
(* the coefficient, most significant first and without leading zeros (<<0>>  *)
(* for zero); an int has exp = 0.  The satoshi amounts do not fit 32 bits,   *)
(* so the arithmetic is done on the digits.                                  *)

\* n zeros, none for n <= 0
Zeros(n) == IF n <= 0 THEN <<>> ELSE [i \in 1..n |-> 0]

RECURSIVE StripZeros(_)
\* str(int(digits)): the digits without leading zeros
StripZeros(d) ==
    IF d = <<>> THEN <<0>>
    ELSE IF Head(d) = 0 /\ Len(d) > 1 THEN StripZeros(Tail(d))
    ELSE d

RECURSIVE StripTrailingZeros(_)
StripTrailingZeros(d) ==
    IF Len(d) > 1 /\ d[Len(d)] = 0 THEN StripTrailingZeros(Take(d, Len(d) - 1))
    ELSE d

TrailingZeros(d) == Len(d) - Len(StripTrailingZeros(d))

\* a < b for two coefficients without leading zeros
NatLess(a, b) ==
    \/ Len(a) < Len(b)
    \/ /\ Len(a) = Len(b)
       /\ \E i \in 1..Len(a) : a[i] < b[i] /\ \A j \in 1..(i - 1) : a[j] = b[j]

RECURSIVE NatDigits(_)
\* the digits of a small natural number, none for 0
NatDigits(n) == IF n = 0 THEN <<>> ELSE NatDigits(n \div 10) \o <<n % 10>>

RECURSIVE Carry(_, _, _, _)
\* the digits of the number whose columns, most significant first, hold the
\* sums cols[1..i]; carry comes from the columns already done, whose digits
\* are acc
Carry(cols, i, carry, acc) ==
    IF i = 0 \/ carry < 0 THEN NatDigits(carry) \o acc
    ELSE Carry(cols, i - 1, (cols[i] + carry) \div 10, <<(cols[i] + carry) % 10>> \o acc)

\* digit i of a, counted from the right, 0 beyond its length
DigitAt(a, i) == IF i >= 1 /\ i <= Len(a) THEN a[Len(a) + 1 - i] ELSE 0

MaxLen(a, b) == IF Len(a) > Len(b) THEN Len(a) ELSE Len(b)

\* a + b
NatAdd(a, b) ==
    StripZeros(Carry([i \in 1..MaxLen(a, b) |->
                         DigitAt(a, MaxLen(a, b) + 1 - i) + DigitAt(b, MaxLen(a, b) + 1 - i)],
                     MaxLen(a, b), 0, <<>>))

RECURSIVE ColumnSum(_, _, _, _)
\* the sum of a[j] * b[k] over the digits with j + k = n + 1, counted from the
\* right, for k = 1..m
ColumnSum(a, b, n, m) ==
    IF m = 0 THEN 0
    ELSE DigitAt(a, n + 1 - m) * DigitAt(b, m) + ColumnSum(a, b, n, m - 1)

\* a * b, column by column
NatMul(a, b) ==
    StripZeros(Carry([i \in 1..(Len(a) + Len(b) - 1) |->
                         ColumnSum(a, b, Len(a) + Len(b) - i, Len(b))],
                     Len(a) + Len(b) - 1, 0, <<>>))

Dec(sign, digits, exp) == [sign |-> sign, digits |-> digits, exp |-> exp]

DecIsZero(d) == d.digits = <<0>>

DecIsNegative(d) == d.sign = 1 /\ ~DecIsZero(d)

\* the coefficient of d written with the exponent e <= d.exp
Scaled(d, e) == StripZeros(d.digits \o Zeros(d.exp - e))

MinExp(a, b) == IF a.exp < b.exp THEN a.exp ELSE b.exp

\* a == b, by value
DecEq(a, b) ==
    \/ DecIsZero(a) /\ DecIsZero(b)
    \/ /\ a.sign = b.sign
       /\ Scaled(a, MinExp(a, b)) = Scaled(b, MinExp(a, b))

\* a < b, by value
DecLess(a, b) ==
    CASE DecIsNegative(a) /\ ~DecIsNegative(b) -> TRUE
      [] ~DecIsNegative(a) /\ DecIsNegative(b) -> FALSE
      [] DecIsNegative(a) /\ DecIsNegative(b) ->
             NatLess(Scaled(b, MinExp(a, b)), Scaled(a, MinExp(a, b)))
      [] OTHER -> NatLess(Scaled(a, MinExp(a, b)), Scaled(b, MinExp(a, b)))

\* a <= b, by value
DecLE(a, b) == DecLess(a, b) \/ DecEq(a, b)

\* the precision of the default context of the decimal module
DecimalPrec == 28

\* the discarded digits call for rounding up under ROUND_HALF_EVEN
RoundsUp(kept, dropped) ==
    \/ Head(dropped) > 5
    \/ /\ Head(dropped) = 5
       /\ \/ \E i \in 2..Len(dropped) : dropped[i] # 0
          \/ kept[Len(kept)] % 2 = 1

\* the result of an arithmetic operation rounded to the context's precision
DecRound(d) ==
    IF Len(d.digits) <= DecimalPrec THEN d
    ELSE IF ~RoundsUp(Take(d.digits, DecimalPrec), Drop(d.digits, DecimalPrec))
         THEN Dec(d.sign, Take(d.digits, DecimalPrec),
                  d.exp + Len(d.digits) - DecimalPrec)
         ELSE IF Len(NatAdd(Take(d.digits, DecimalPrec), <<1>>)) > DecimalPrec
              THEN Dec(d.sign, Take(NatAdd(Take(d.digits, DecimalPrec), <<1>>), DecimalPrec),
                       d.exp + Len(d.digits) - DecimalPrec + 1)
              ELSE Dec(d.sign, NatAdd(Take(d.digits, DecimalPrec), <<1>>),
                       d.exp + Len(d.digits) - DecimalPrec)

\* a * b in the default context
DecMul(a, b) ==
    DecRound(Dec((a.sign + b.sign) % 2, NatMul(a.digits, b.digits), a.exp + b.exp))

\* int(d): the integer part, truncated toward zero
DecToInt(d) ==
    IF d.exp >= 0
    THEN Dec(IF DecIsZero(d) THEN 0 ELSE d.sign, Scaled(d, 0), 0)
    ELSE IF Len(d.digits) <= -d.exp THEN Dec(0, <<0>>, 0)
    ELSE Dec(IF DecIsZero(d) THEN 0 ELSE d.sign, Take(d.digits, Len(d.digits) + d.exp), 0)

\* d.normalize(): the trailing zeros of the coefficient go to the exponent
DecNormalize(d) ==
    IF DecIsZero(d) THEN Dec(d.sign, <<0>>, 0)
    ELSE Dec(d.sign, StripTrailingZeros(d.digits), d.exp + TrailingZeros(d.digits))

DigitChars == <<"0", "1", "2", "3", "4", "5", "6", "7", "8", "9">>

CharsOf(digits) == [i \in 1..Len(digits) |-> DigitChars[digits[i] + 1]]

CharDigit(c) == CHOOSE k \in 0..9 : DigitChars[k + 1] = c

IsDigitChar(c) == \E k \in 0..9 : DigitChars[k + 1] = c

RECURSIVE NatChars(_)
\* "%d" % n for a natural number n
NatChars(n) ==
    IF n < 10 THEN <<DigitChars[n + 1]>>
    ELSE NatChars(n \div 10) \o <<DigitChars[(n % 10) + 1]>>

\* "%+d" % n
SignedChars(n) == IF n < 0 THEN <<"-">> \o NatChars(-n) ELSE <<"+">> \o NatChars(n)

\* where the decimal point goes in str(d), counted from the left of the
\* coefficient: plain notation down to six leading zeros, scientific otherwise
DotPlace(d) ==
    IF d.exp <= 0 /\ d.exp + Len(d.digits) > -6 THEN d.exp + Len(d.digits) ELSE 1

\* str(d) of a decimal.Decimal (and of an int, whose exponent is 0)
DecimalStr(d) ==
    (IF d.sign = 1 THEN <<"-">> ELSE <<>>)
        \o (CASE DotPlace(d) <= 0 ->
                     <<"0", ".">> \o CharsOf(Zeros(-DotPlace(d))) \o CharsOf(d.digits)
              [] DotPlace(d) >= Len(d.digits) ->
                     CharsOf(d.digits) \o CharsOf(Zeros(DotPlace(d) - Len(d.digits)))
              [] OTHER ->
                     CharsOf(Take(d.digits, DotPlace(d))) \o <<".">>
                         \o CharsOf(Drop(d.digits, DotPlace(d))))
        \o (IF d.exp + Len(d.digits) = DotPlace(d) THEN <<>>
            ELSE <<"E">> \o SignedChars(d.exp + Len(d.digits) - DotPlace(d)))

\* the position of the first c in s, 0 if there is none
IndexOf(s, c) ==
    IF \E i \in 1..Len(s) : s[i] = c
    THEN CHOOSE i \in 1..Len(s) : s[i] = c /\ \A j \in 1..(i - 1) : s[j] # c
    ELSE 0

Unsigned(s) == IF s # <<>> /\ Head(s) \in {"-", "+"} THEN Tail(s) ELSE s

\* the text before and after the exponent mark, and around the point
Mantissa(s) ==
    IF IndexOf(Unsigned(s), "E") = 0 THEN Unsigned(s)
    ELSE Take(Unsigned(s), IndexOf(Unsigned(s), "E") - 1)

Exponent(s) ==
    IF IndexOf(Unsigned(s), "E") = 0 THEN <<"0">>
    ELSE Drop(Unsigned(s), IndexOf(Unsigned(s), "E"))

IntPart(s) ==
    IF IndexOf(Mantissa(s), ".") = 0 THEN Mantissa(s)
    ELSE Take(Mantissa(s), IndexOf(Mantissa(s), ".") - 1)

FracPart(s) ==
    IF IndexOf(Mantissa(s), ".") = 0 THEN <<>>
    ELSE Drop(Mantissa(s), IndexOf(Mantissa(s), "."))

AllDigits(s) == \A i \in 1..Len(s) : IsDigitChar(s[i])

DigitsOf(s) == [i \in 1..Len(s) |-> CharDigit(s[i])]

RECURSIVE NatValue(_)
\* int(s) for a short run of digits
NatValue(s) ==
    IF s = <<>> THEN 0 ELSE 10 * NatValue(Take(s, Len(s) - 1)) + CharDigit(s[Len(s)])

SignedValue(s) == IF s # <<>> /\ Head(s) = "-" THEN -NatValue(Unsigned(s)) ELSE NatValue(Unsigned(s))

\* decimal.Decimal(s) for a finite number: exact, whatever the number of digits
DecimalParse(s) ==
    IF \/ IntPart(s) \o FracPart(s) = <<>>
       \/ ~AllDigits(IntPart(s) \o FracPart(s))
       \/ Unsigned(Exponent(s)) = <<>>
       \/ ~AllDigits(Unsigned(Exponent(s)))
    THEN Err("InvalidOperation")
    ELSE Ok(Dec(IF s # <<>> /\ Head(s) = "-" THEN 1 ELSE 0,
                StripZeros(DigitsOf(IntPart(s) \o FracPart(s))),
                SignedValue(Exponent(s)) - Len(FracPart(s))))

_SATOSHI_PER_BITCOIN == Dec(0, <<1, 0, 0, 0, 0, 0, 0, 0, 0>>, 0)

_BITCOIN_PER_SATOSHI == Dec(0, <<1>>, -8)

_MAX_SATOSHI == Dec(0, <<2, 0, 9, 9, 9, 9, 9, 9, 9, 7, 6, 9, 0, 0, 0, 0>>, 0)

_MAX_BITCOIN == Dec(0, <<2, 0, 9, 9, 9, 9, 9, 9, 9, 7, 6, 9>>, -4)

\* sats_from_btc(amount)
sats_from_btc(amount) ==
    Then(DecimalParse(DecimalStr(amount)), LAMBDA btc, rest :
        IF ~(DecLE(Dec(0, <<0>>, 0), btc) /\ DecLE(btc, _MAX_BITCOIN))
        THEN Err("BTClibValueError")
        ELSE IF DecEq(DecToInt(DecMul(btc, _SATOSHI_PER_BITCOIN)),
                      DecMul(btc, _SATOSHI_PER_BITCOIN))
             THEN Ok(DecToInt(DecMul(btc, _SATOSHI_PER_BITCOIN)))
             ELSE Err("BTClibValueError"))

\* btc_from_sats(sats)
btc_from_sats(sats) ==
    IF ~DecEq(DecToInt(sats), sats) THEN Err("BTClibTypeError")
    ELSE IF ~(DecLE(Dec(0, <<0>>, 0), sats) /\ DecLE(sats, _MAX_SATOSHI))
         THEN Err("BTClibValueError")
         ELSE Ok(DecNormalize(DecMul(sats, _BITCOIN_PER_SATOSHI)))

----------------------------------------------------------------------------
(* The conversions applied to hand-picked amounts: around zero, around the   *)
(* maximum, with nine decimals, with trailing zeros and with more digits     *)
(* than the context's precision.                                             *)

\* 1 followed by 28 zeros and a 1
LongCoefficient == <<1>> \o Zeros(28) \o <<1>>

CraftedCoefficients ==
    {<<0>>, <<1>>, <<1, 5>>,
     <<1, 2, 3, 4, 5, 6, 7, 8, 9>>,
     <<1, 0, 0, 0, 0, 0, 0, 0, 0, 0>>,
     <<2, 0, 9, 9, 9, 9, 9, 9, 9, 7, 6, 9>>,
     <<2, 0, 9, 9, 9, 9, 9, 9, 9, 7, 7, 0>>,
     <<2, 0, 9, 9, 9, 9, 9, 9, 9, 7, 6, 8, 9, 9, 9, 9>>,
     <<2, 0, 9, 9, 9, 9, 9, 9, 9, 7, 6, 9, 0, 0, 0, 0>>,
     <<2, 0, 9, 9, 9, 9, 9, 9, 9, 7, 6, 9, 0, 0, 0, 1>>,
     LongCoefficient}

CraftedExponents == {-29, -9, -8, -4, 0, 2}

CraftedAmounts ==
    {Dec(sign, digits, exp) :
        sign \in {0, 1}, digits \in CraftedCoefficients, exp \in CraftedExponents}

InitAmount ==
    /\ PipelineIdle
    /\ ValidatorIdle
    /\ \E unit \in {"btc", "sats"}, amount \in CraftedAmounts :
           crec = [cls |-> "amount", unit |-> unit, amount |-> amount]
    /\ cwire = NoResult
    /\ cmap = NoResult
    /\ cdec = NoResult
    /\ cpc = "amount"

\* sats_from_btc(amount)
ToSats ==
    /\ cpc = "amount"
    /\ crec.unit = "btc"
    /\ cdec' = sats_from_btc(crec.amount)
    /\ cpc' = "sats"
    /\ UNCHANGED <<heap, roots, last, steps, crec, cwire, cmap, vpsbt, vres>>

\* btc_from_sats(amount)
ToBtc ==
    /\ cpc = "amount"
    /\ crec.unit = "sats"
    /\ cdec' = btc_from_sats(crec.amount)
    /\ cpc' = "btc"
    /\ UNCHANGED <<heap, roots, last, steps, crec, cwire, cmap, vpsbt, vres>>

\* sats_from_btc(btc_from_sats(amount))
BackToSats ==
    /\ cpc = "btc"
    /\ IsOk(cdec)
    /\ cwire' = sats_from_btc(cdec.val)
    /\ cpc' = "back"
    /\ UNCHANGED <<heap, roots, last, steps, crec, cmap, cdec, vpsbt, vres>>

NextAmount == ToSats \/ ToBtc \/ BackToSats

SpecAmount == InitAmount /\ [][NextAmount]_vars

\* the amount, written without trailing zeros, has more than 8 digits after
\* the decimal point
TooManyDecimals(d) == ~DecIsZero(d) /\ d.exp + TrailingZeros(d.digits) < -8

\* a Python int in the range of the satoshi amounts
SatoshiInRange(d) ==
    /\ d.sign = 0
    /\ d.exp = 0
    /\ ~NatLess(_MAX_SATOSHI.digits, d.digits)

\* C27: amount bounds. Neither sats_from_btc nor btc_from_sats returns for
\* a negative amount or for an amount above the maximum (2_099_999_997_690_000
\* satoshi, 20_999_999.9769 BTC); sats_from_btc does not return for a BTC
\* amount with more than 8 decimal digits; and for every integer s with
\* 0 <= s <= 2_099_999_997_690_000, sats_from_btc(btc_from_sats(s)) == s.
C27_AmountBounds ==
    /\ ( /\ cpc = "sats"
         /\ DecIsNegative(crec.amount) \/ DecLess(_MAX_BITCOIN, crec.amount) ) =>
           ~IsOk(cdec)
    /\ ( /\ cpc \in {"btc", "back"}
         /\ DecIsNegative(crec.amount) \/ DecLess(_MAX_SATOSHI, crec.amount) ) =>
           ~IsOk(cdec)
    /\ (cpc = "sats" /\ TooManyDecimals(crec.amount)) => ~IsOk(cdec)
    /\ (cpc = "btc" /\ SatoshiInRange(crec.amount)) => IsOk(cdec)
    /\ (cpc = "back" /\ SatoshiInRange(crec.amount)) =>
           IsOk(cwire) /\ cwire.val = crec.amount

----------------------------------------------------------------------------
(* Claims about the scripts of combined and of finalized records *)

\* the fields of an input record that hold one script or one final stack
ScriptFields == {"redeem_script", "witness_script", "final_script_sig", "final_script_witness"}

\* C28: scripts are never mixed by combine. At every index, the
\* redeem_script, the witness_script, the final_script_sig and the
\* final_script_witness of the record combine_psbts returns are each empty or
\* equal, token for token, to that field of the record one of the combined
\* containers had at that index: never an interleaving or a concatenation of
\* the tokens of two different scripts.
C28_ScriptsNotMixed ==
    last.op = "combine_psbts" /\ last.err = "" =>
        \A x \in 1..Len(last.result.inputs), f \in ScriptFields :
            \/ last.result.inputs[x][f] = <<>>
            \/ \E k \in 1..Len(last.args) :
                   /\ x <= Len(last.before[k].inputs)
                   /\ last.result.inputs[x][f] = last.before[k].inputs[x][f]

\* the keys of the entries a record serializes to, read back from its bytes
\* and the terminator Psbt.serialize puts after them
SerializedTags(r) ==
    Then(PsbtInputSerialize(r), LAMBDA data, rest :
        Then(deserialize_map(data \o <<0>>), LAMBDA m, after : Ok(TagsOf(m))))

\* C29: native segwit finalization. For an input record with a non-empty
\* witness_script and an empty redeem_script, finalize_psbt leaves
\* final_script_sig empty, and the serialization of the finalized record has
\* no final-scriptsig entry (key 0x07).
C29_FinalizeNative ==
    last.op = "finalize_psbt" /\ last.err = "" =>
        \A i \in 1..Len(last.before[1].inputs) :
            ( /\ last.before[1].inputs[i].witness_script # <<>>
              /\ last.before[1].inputs[i].redeem_script = <<>> ) =>
                /\ last.result.inputs[i].final_script_sig = <<>>
                /\ IsOk(SerializedTags(last.result.inputs[i])) =>
                       ~InSeq(7, SerializedTags(last.result.inputs[i]).val)

====
